---- MODULE Spec2Model ----
(***************************************************************************)
(* Verification model of DocGen_LLM's LSP layer.                           *)
(*                                                                         *)
(*   Spec           one LSPClient session (src/extraction/lsp_client.py):  *)
(*                  start_server, two tasks sending requests, the server   *)
(*                  and the reader loop.                                   *)
(*   SpecLifecycle  the same session with one requesting task and a task   *)
(*                  that calls shutdown().                                 *)
(*   SpecOpen       the same session with callers of did_open_file.        *)
(*   SpecDeadline   the same session with one requesting task and a server *)
(*                  that may stop reading its input; the client's steps    *)
(*                  are fair.                                              *)
(*   SpecDocker     DockerLSPClient: start_server and shutdown() called    *)
(*                  by two tasks.                                          *)
(*   SpecExtract    LSP_Extractor.run_extraction over a small project.     *)
(*   SpecRun        the same run, which an exception may end before its    *)
(*                  shutdown loop.                                         *)
(*   SpecCall       the helper functions of the clients and the extractor, *)
(*                  each called once on an input of a bounded domain;      *)
(*                  three tasks that write to one session; from_obj_to_sql *)
(*                  and document_projects on a project of three symbols.   *)
(***************************************************************************)
EXTENDS Integers, Sequences, FiniteSets, Bags, TLC

(***************************************************************************)
(* Bounds of the model.                                                    *)
(***************************************************************************)
MaxInbox == 1
MaxNotif == 2
MaxRefs == 2

(***************************************************************************)
(* Program constants (seconds).                                            *)
(***************************************************************************)
InitTimeout == 30
ShutdownTimeout == 5
SlowMethodTimeout == 60
DefaultRequestTimeout == 20

Users == {"u1", "u2"}
Shutters == {"s1"}
Starter == "st"
DockerShutters == {"s1", "s2"}
Tasks == Users \cup Shutters \cup DockerShutters \cup {Starter}
Uris == {"a", "b"}
RequestUri == "a"
QueryMethods == {"textDocument/documentSymbol"}
RequestTimeouts == {DefaultRequestTimeout, 40}

NoMsg == [k |-> "none", id |-> 0]

VARIABLES
    docker_mode,        \* LSPClient.docker_mode
    request_timeout,    \* LSPClient.request_timeout
    is_running,         \* LSPClient._is_running
    process,            \* LSPClient.process: "None" or "set"
    proc,               \* the server process itself: "none", "live", "exited",
                        \* or "stalled" (alive, no longer reading its stdin)
    writer,             \* the write handle (writer / process.stdin): "None" or "set"
    closing,            \* is_closing() of the write handle
    request_id,         \* LSPClient.request_id
    responses,          \* LSPClient.responses: id -> message
    response_events,    \* LSPClient.response_events: id -> task owning the Event
    server_capabilities,\* whether _initialize recorded the capabilities
    ev,                 \* per task: its Event is set
    pc,                 \* per task: position in its coroutine
    rid,                \* per task: request_id local of its _send_request
    outcome,            \* per task: how its last _send_request ended
    got,                \* per task: the response message it popped
    wire,               \* bag of the messages written to the server's stdin
                        \* (a request leaves it when the server answers it)
    inbox,              \* frames written by the server, not yet read
    reader,             \* _message_reader_loop: "none", "reading", "stopped"
    reader_err,         \* the reader loop ended on a transport error
    timed_out,          \* ids whose _send_request ended by timeout
    terminate_calls,    \* calls of process.terminate()
    shutdown_writes,    \* `shutdown` requests written to the server
    \* LSP_Extractor
    step,               \* position of run_extraction
    li, fi, si,         \* loop indexes: language, file, symbol
    servers,            \* LSP_Extractor.servers: language -> state of its client
    opened_files,       \* LSP_Extractor.opened_files
    sent,               \* per language: the messages written to its server, in order
    symbols,            \* FileModel.symbols, per file
    def_result,         \* per symbol: what _is_definition answered
    calling_symbols,    \* SymbolModel.calling_symbols, per symbol
    called_symbols,     \* SymbolModel.called_symbols, per symbol
    seen,               \* the (callee, location) pairs of the last
                        \* _match_reference_to_symbol call
    \* helper functions called on their own
    arg,                \* the function called and its arguments
    ret,                \* whether it returned, and its result
    \* the write side of one session, with three tasks that each send a message
    stream,             \* what the write handle was given, in order: the
                        \* headers and the payload bytes
    asked,              \* the tasks in the order they called _write_message
    wpc,                \* per task: "idle", "drain" (in `await drain()`), "done"
    \* the symbol store
    db                  \* the database file: its rows, the SymbolRelationship
                        \* table, the symbols documented so far (in order),
                        \* and where from_obj_to_sql / document_projects are

svars == <<docker_mode, request_timeout, is_running, process, proc, writer,
           closing, request_id, responses, response_events,
           server_capabilities, ev, pc, rid, outcome, got, wire, inbox,
           reader, reader_err, timed_out, terminate_calls, shutdown_writes>>

evars == <<step, li, fi, si, servers, opened_files, sent, symbols,
           def_result, calling_symbols, called_symbols, seen>>

pvars == <<arg, ret, stream, asked, wpc, db>>
vars == <<svars, evars, pvars>>

(***************************************************************************)
(* dict helpers                                                            *)
(***************************************************************************)
Pop(f, key) == [x \in DOMAIN f \ {key} |-> f[x]]
Put(f, key, val) == [x \in DOMAIN f \cup {key} |-> IF x = key THEN val ELSE f[x]]
EmptyDict == [x \in {} |-> 0]

(***************************************************************************)
(* LSPClient.__init__                                                      *)
(***************************************************************************)
InitSession ==
    /\ docker_mode \in BOOLEAN
    /\ request_timeout \in RequestTimeouts
    /\ is_running = FALSE
    /\ process = "None"
    /\ proc = "none"
    /\ writer = "None"
    /\ closing = FALSE
    /\ request_id = 0
    /\ responses = EmptyDict
    /\ response_events = EmptyDict
    /\ server_capabilities = FALSE
    /\ ev = [t \in Tasks |-> FALSE]
    /\ pc = [t \in Tasks |-> "idle"]
    /\ rid = [t \in Tasks |-> 0]
    /\ outcome = [t \in Tasks |-> "none"]
    /\ got = [t \in Tasks |-> NoMsg]
    /\ wire = EmptyBag
    /\ inbox = <<>>
    /\ reader = "none"
    /\ reader_err = FALSE
    /\ timed_out = {}
    /\ terminate_calls = 0
    /\ shutdown_writes = 0

(***************************************************************************)
(* The project LSP_Extractor works on: two files of two languages, the     *)
(* symbols their servers report, and the locations a references query may  *)
(* return.  A range is [sl, sc, el, ec] (start/end line and character).    *)
(***************************************************************************)
Files == <<"f1", "f2">>                     \* project.get_all_files()
Languages == <<"python", "java">>           \* project.get_all_languages()
Language ==
    [f \in {"f1", "f2"} |-> IF f = "f1" THEN "python" ELSE "java"]

Symbols == {"A", "B", "D"}
None == "None"

Rng(a, b, c, d) == [sl |-> a, sc |-> b, el |-> c, ec |-> d]

\* A `range` whose start and end are not positions: json_to_range raises.
BadRange == Rng(-1, -1, -1, -1)

\* class A with method B in f1, function D in f2
Range ==
    [s \in Symbols |->
        IF s = "A" THEN Rng(0, 0, 9, 0)
        ELSE IF s = "B" THEN Rng(2, 4, 4, 0)
        ELSE Rng(0, 0, 3, 0)]
SelectionRange ==
    [s \in Symbols |->
        IF s = "A" THEN Rng(0, 6, 0, 7)
        ELSE IF s = "B" THEN Rng(2, 8, 2, 9)
        ELSE Rng(0, 4, 0, 5)]
Parent == [s \in Symbols |-> IF s = "B" THEN "A" ELSE None]

\* The documentSymbol tree of a file, flattened in the order
\* _process_lsp_symbols appends (parent, then its children).
DocumentSymbols == [f \in {"f1", "f2"} |-> IF f = "f1" THEN <<"A", "B">> ELSE <<"D">>]

\* SymbolModel.symbol_kind, the LSP kind mapped by the `kind_to_types` table
\* of the configuration: D is the symbol of an import statement of f2.
SymbolKind == [s \in Symbols |-> IF s = "D" THEN "import" ELSE "function"]

\* SymbolModel.child_symbols as _process_lsp_symbols fills it.
child_symbols(s) == {c \in Symbols : Parent[c] = s}

\* Locations: inside B (and A), inside A only, at module scope of f1,
\* inside D, and in a file outside the project.
Locs ==
    { [file |-> "f1", range |-> Rng(3, 8, 3, 9)],
      [file |-> "f1", range |-> Rng(6, 4, 6, 5)],
      [file |-> "f1", range |-> Rng(11, 0, 11, 1)],
      [file |-> "f2", range |-> Rng(1, 4, 1, 5)],
      [file |-> "ext", range |-> Rng(0, 0, 0, 1)] }

\* What a references request can return: None / [] or a list of locations,
\* or such a list that ends with a location of f1 whose range is malformed
\* (what follows a malformed location is never read).
RefResults ==
    LET lists(k) == UNION {[1..n -> Locs] : n \in 0..k}
    IN lists(MaxRefs)
         \cup {Append(q, [file |-> "f1", range |-> BadRange]) :
                  q \in lists(MaxRefs - 1)}

\* What a definition request can return for symbol s: None, or a list with
\* one item that carries its range under `selectionRange` or under `range`.
NoResult == <<>>
DefResults(s) ==
    { NoResult,
      <<[key |-> "selectionRange", range |-> SelectionRange[s]]>>,
      <<[key |-> "selectionRange", range |-> Range[s]]>>,
      <<[key |-> "range", range |-> SelectionRange[s]]>> }

\* LSP_Extractor.__init__ (and the FolderModel it is given)
InitExtract ==
    /\ step = "start"
    /\ li = 1
    /\ fi = 1
    /\ si = 1
    /\ servers = [l \in {"python", "java"} |-> "absent"]
    /\ opened_files = {}
    /\ sent = [l \in {"python", "java"} |-> <<>>]
    /\ symbols = [f \in {"f1", "f2"} |-> <<>>]
    /\ def_result = [s \in Symbols |-> "unasked"]
    /\ calling_symbols = [s \in Symbols |-> <<>>]
    /\ called_symbols = [s \in Symbols |-> <<>>]
    /\ seen = {}

\* No helper function is under call in a session or an extraction run.
InitIdle ==
    /\ arg = [fn |-> "none"]
    /\ ret = [done |-> FALSE]
    /\ stream = <<>>
    /\ asked = <<>>
    /\ wpc = [t \in {"w1", "w2", "w3"} |-> "idle"]
    /\ db = [pc |-> "new", rows |-> {}, rels |-> <<>>, documented |-> <<>>,
             left |-> 0, parent_id |-> <<0, 0, 0>>, attempted |-> {}]

Init == InitSession /\ InitExtract /\ InitIdle

(***************************************************************************)
(* _write_lsp_message: the availability test, then write and drain.        *)
(***************************************************************************)
CanWrite ==
    IF docker_mode THEN process = "set" /\ ~closing
                   ELSE writer = "set" /\ ~closing

\* "raise" when the handle is unavailable; a write to a process that has
\* exited either is buffered or raises from drain().
WriteOutcomes ==
    IF ~CanWrite THEN {"raise"}
    ELSE IF proc = "exited" THEN {"ok", "raise"}
    ELSE {"ok"}

Request(i, m, u) == [k |-> "req", id |-> i, method |-> m, uri |-> u]
Notification(m, u) == [k |-> "notif", id |-> 0, method |-> m, uri |-> u]

\* _send_notification with write outcome w: the wire afterwards.
SendNotification(w, m, u) ==
    IF w = "ok" THEN wire (+) SetToBag({Notification(m, u)}) ELSE wire

(***************************************************************************)
(* _send_request, first half: allocate the id, register the Event, write.  *)
(* A write that raises runs the finally block at once.                     *)
(***************************************************************************)
\* Variant of the first half of _send_request that takes the counter's
\* value for the id once the counter is past 1.
SendRequestWrite_ReuseId(t, m, u, w) ==
    LET i == IF request_id < 2 THEN request_id + 1 ELSE request_id IN
    /\ request_id' = i
    /\ rid' = [rid EXCEPT ![t] = i]
    /\ got' = [got EXCEPT ![t] = NoMsg]
    /\ ev' = [ev EXCEPT ![t] = FALSE]
    /\ IF w = "ok"
         THEN /\ wire' = wire (+) SetToBag({Request(i, m, u)})
              /\ response_events' = Put(response_events, i, t)
              /\ responses' = responses
              /\ outcome' = [outcome EXCEPT ![t] = "pending"]
         ELSE /\ wire' = wire
              /\ response_events' = Pop(response_events, i)
              /\ responses' = Pop(responses, i)
              /\ outcome' = [outcome EXCEPT ![t] = "raised"]

SendRequestWrite(t, m, u, w) ==
    LET i == request_id + 1 IN
    /\ request_id' = i
    /\ rid' = [rid EXCEPT ![t] = i]
    /\ got' = [got EXCEPT ![t] = NoMsg]
    /\ ev' = [ev EXCEPT ![t] = FALSE]
    /\ IF w = "ok"
         THEN /\ wire' = wire (+) SetToBag({Request(i, m, u)})
              /\ response_events' = Put(response_events, i, t)
              /\ responses' = responses
              /\ outcome' = [outcome EXCEPT ![t] = "pending"]
         ELSE /\ wire' = wire
              /\ response_events' = Pop(response_events, i)
              /\ responses' = Pop(responses, i)
              /\ outcome' = [outcome EXCEPT ![t] = "raised"]

(***************************************************************************)
(* _send_request, second half: the wait ended (how = "wake": the Event was *)
(* set; "timeout": wait_for gave up), the response is popped, the finally  *)
(* block removes the slot.                                                 *)
(***************************************************************************)
\* Variant that takes whichever response the map holds, not the caller's.
PoppedResponse_AnyId(t, how) ==
    IF how = "wake" /\ DOMAIN responses # {}
    THEN responses[CHOOSE i \in DOMAIN responses : TRUE] ELSE NoMsg

PoppedResponse(t, how) ==
    IF how = "wake" /\ rid[t] \in DOMAIN responses
    THEN responses[rid[t]] ELSE NoMsg

SendRequestEnd(t, how) ==
    LET resp == PoppedResponse(t, how) IN
    /\ got' = [got EXCEPT ![t] = resp]
    /\ outcome' = [outcome EXCEPT ![t] =
            IF how = "wake" THEN (IF resp = NoMsg THEN "empty" ELSE resp.k)
            ELSE "timeout"]
    /\ ev' = [ev EXCEPT ![t] = FALSE]
    /\ responses' = Pop(responses, rid[t])
    /\ response_events' = Pop(response_events, rid[t])
    /\ timed_out' = IF how = "wake" THEN timed_out ELSE timed_out \cup {rid[t]}

\* The timeout _send_request itself applies to method m.
EffectiveTimeout(m) ==
    IF m \in {"textDocument/documentSymbol", "textDocument/references"}
    THEN SlowMethodTimeout ELSE request_timeout

(***************************************************************************)
(* User tasks: get_document_symbols / get_definition (requests) and        *)
(* did_open_file (a notification).  The wrappers catch what the write      *)
(* raises and return None / False.                                         *)
(***************************************************************************)
UserRequest(t, m) ==
    /\ pc[t] = "idle"
    /\ \E w \in WriteOutcomes :
          /\ SendRequestWrite(t, m, RequestUri, w)
          /\ pc' = [pc EXCEPT ![t] = IF w = "ok" THEN "waiting" ELSE "done"]
    /\ UNCHANGED <<docker_mode, request_timeout, is_running, process, proc,
                   writer, closing, server_capabilities, inbox, reader, reader_err, timed_out, terminate_calls, shutdown_writes>>
    /\ UNCHANGED <<evars, pvars>>

UserWake(t) ==
    /\ pc[t] = "waiting"
    /\ ev[t]
    /\ SendRequestEnd(t, "wake")
    /\ pc' = [pc EXCEPT ![t] = "done"]
    /\ UNCHANGED <<docker_mode, request_timeout, is_running, process, proc,
                   writer, closing, request_id, server_capabilities, rid,
                   wire, inbox, reader, reader_err, terminate_calls, shutdown_writes>>
    /\ UNCHANGED <<evars, pvars>>

UserTimeout(t) ==
    /\ pc[t] = "waiting"
    /\ SendRequestEnd(t, "timeout")
    /\ pc' = [pc EXCEPT ![t] = "done"]
    /\ UNCHANGED <<docker_mode, request_timeout, is_running, process, proc,
                   writer, closing, request_id, server_capabilities, rid,
                   wire, inbox, reader, reader_err, terminate_calls, shutdown_writes>>
    /\ UNCHANGED <<evars, pvars>>

\* did_open_file: reads the file and sends textDocument/didOpen; it keeps no
\* record of the URIs it has opened.
did_open_file(u, w) == SendNotification(w, "textDocument/didOpen", u)

\* didOpen notifications written so far.
DidOpenWritten ==
    LET opens == {m \in BagToSet(wire) : m.method = "textDocument/didOpen"}
        sum[S \in SUBSET opens] ==
            IF S = {} THEN 0
            ELSE LET m == CHOOSE x \in S : TRUE IN wire[m] + sum[S \ {m}]
    IN sum[opens]

DidOpenFile(u) ==
    /\ DidOpenWritten < MaxNotif
    /\ \E w \in WriteOutcomes : wire' = did_open_file(u, w)
    /\ UNCHANGED <<docker_mode, request_timeout, is_running, process, proc,
                   writer, closing, request_id, responses, response_events,
                   server_capabilities, ev, pc, rid, outcome, got, inbox,
                   reader, reader_err, timed_out, terminate_calls, shutdown_writes>>
    /\ UNCHANGED <<evars, pvars>>

(***************************************************************************)
(* The server process.                                                     *)
(***************************************************************************)
WrittenRequests == {m \in BagToSet(wire) : m.k = "req"}

ServerRespond(kind) ==
    /\ proc = "live"
    /\ Len(inbox) < MaxInbox
    /\ \E q \in WrittenRequests :
          /\ inbox' = Append(inbox, [k |-> kind, id |-> q.id])
          /\ wire' = wire (-) SetToBag({q})
    /\ UNCHANGED <<docker_mode, request_timeout, is_running, process, proc,
                   writer, closing, request_id, responses, response_events,
                   server_capabilities, ev, pc, rid, outcome, got,
                   reader, reader_err, timed_out, terminate_calls, shutdown_writes>>
    /\ UNCHANGED <<evars, pvars>>

\* A server notification (window/logMessage, ...) or a frame the reader
\* cannot decode (bad header, short payload, invalid JSON).
ServerEmit(kind) ==
    /\ proc = "live"
    /\ Len(inbox) < MaxInbox
    /\ \A n \in DOMAIN inbox : inbox[n].k # kind
    /\ inbox' = Append(inbox, [k |-> kind, id |-> 0])
    /\ UNCHANGED <<docker_mode, request_timeout, is_running, process, proc,
                   writer, closing, request_id, responses, response_events,
                   server_capabilities, ev, pc, rid, outcome, got, wire,
                   reader, reader_err, timed_out, terminate_calls, shutdown_writes>>
    /\ UNCHANGED <<evars, pvars>>

ServerExit ==
    /\ proc \in {"live", "stalled"}
    /\ proc' = "exited"
    /\ UNCHANGED <<docker_mode, request_timeout, is_running, process, writer,
                   closing, request_id, responses, response_events,
                   server_capabilities, ev, pc, rid, outcome, got, wire,
                   inbox, reader, reader_err, timed_out, terminate_calls, shutdown_writes>>
    /\ UNCHANGED <<evars, pvars>>

\* The server stops reading its standard input (and answers nothing more).
ServerStall ==
    /\ proc = "live"
    /\ proc' = "stalled"
    /\ UNCHANGED <<docker_mode, request_timeout, is_running, process, writer,
                   closing, request_id, responses, response_events,
                   server_capabilities, ev, pc, rid, outcome, got, wire,
                   inbox, reader, reader_err, timed_out, terminate_calls, shutdown_writes>>
    /\ UNCHANGED <<evars, pvars>>

\* _send_request whose write does not return: the pipe of a server that no
\* longer reads is full, the frame stays in the transport's buffer and
\* `await drain()`, which no wait_for covers, waits for the buffer to empty.
UserRequestBlocked(t, m) ==
    /\ pc[t] = "idle"
    /\ CanWrite
    /\ proc = "stalled"
    /\ SendRequestWrite(t, m, RequestUri, "ok")
    /\ pc' = [pc EXCEPT ![t] = "blocked"]
    /\ UNCHANGED <<docker_mode, request_timeout, is_running, process, proc,
                   writer, closing, server_capabilities, inbox, reader, reader_err, timed_out, terminate_calls, shutdown_writes>>
    /\ UNCHANGED <<evars, pvars>>

\* The process has exited: drain() raises, _write_lsp_message re-raises and
\* the finally block of _send_request removes the slot.
UserUnblocked(t) ==
    /\ pc[t] = "blocked"
    /\ proc = "exited"
    /\ outcome' = [outcome EXCEPT ![t] = "raised"]
    /\ response_events' = Pop(response_events, rid[t])
    /\ responses' = Pop(responses, rid[t])
    /\ pc' = [pc EXCEPT ![t] = "done"]
    /\ UNCHANGED <<docker_mode, request_timeout, is_running, process, proc,
                   writer, closing, request_id, server_capabilities, ev, rid,
                   got, wire, inbox, reader, reader_err, timed_out,
                   terminate_calls, shutdown_writes>>
    /\ UNCHANGED <<evars, pvars>>

(***************************************************************************)
(* _message_reader_loop, one iteration: _read_lsp_message returned, the    *)
(* message is handled, the loop condition is tested again.                 *)
(***************************************************************************)
\* _handle_lsp_message on the maps: <<responses, events set>>.
HandleResponses(m) ==
    IF m.k \in {"result", "error"} THEN Put(responses, m.id, m) ELSE responses

HandleWakes(m) ==
    IF m.k \in {"result", "error"} /\ m.id \in DOMAIN response_events
    THEN {response_events[m.id]} ELSE {}

LoopCondition == is_running /\ process = "set"

ReaderHandle ==
    /\ reader = "reading"
    /\ inbox # <<>>
    /\ Head(inbox).k # "bad"
    /\ LET m == Head(inbox) IN
         /\ responses' = HandleResponses(m)
         /\ ev' = [t \in Tasks |-> ev[t] \/ t \in HandleWakes(m)]
    /\ inbox' = Tail(inbox)
    /\ reader' = IF LoopCondition THEN "reading" ELSE "stopped"
    /\ UNCHANGED <<docker_mode, request_timeout, is_running, process, proc,
                   writer, closing, request_id, response_events,
                   server_capabilities, pc, rid, outcome, got, wire,
                   reader_err, timed_out, terminate_calls, shutdown_writes>>
    /\ UNCHANGED <<evars, pvars>>

\* _read_lsp_message swallows every decoding error and returns None; the
\* loop breaks.  Nothing else is touched.
ReaderTransportError ==
    /\ reader = "reading"
    /\ inbox # <<>>
    /\ Head(inbox).k = "bad"
    /\ inbox' = Tail(inbox)
    /\ reader' = "stopped"
    /\ reader_err' = TRUE
    /\ UNCHANGED <<docker_mode, request_timeout, is_running, process, proc,
                   writer, closing, request_id, responses, response_events,
                   server_capabilities, ev, pc, rid, outcome, got, wire,
                   timed_out, terminate_calls, shutdown_writes>>
    /\ UNCHANGED <<evars, pvars>>

\* readline() returns b"" at end of stream.
ReaderEOF ==
    /\ reader = "reading"
    /\ inbox = <<>>
    /\ proc = "exited"
    /\ reader' = "stopped"
    /\ UNCHANGED <<docker_mode, request_timeout, is_running, process, proc,
                   writer, closing, request_id, responses, response_events,
                   server_capabilities, ev, pc, rid, outcome, got, wire,
                   inbox, reader_err, timed_out, terminate_calls, shutdown_writes>>
    /\ UNCHANGED <<evars, pvars>>

(***************************************************************************)
(* shutdown().  A task runs it from pc "idle" (a caller of shutdown) or    *)
(* from "sd_call" (start_server, after its initialization failed).         *)
(***************************************************************************)
Ret(t) == IF t = Starter THEN "ret_false" ELSE "done"
ShutdownEntry(t) == IF t = Starter THEN "sd_call" ELSE "idle"

\* The guard of the shutdown sequence: a process and a usable write handle.
ShutdownCanSend == process = "set" /\ CanWrite

\* `if not self._is_running: return`, then the flag is cleared and, the
\* handle permitting, the `shutdown` request is written; otherwise the
\* process is terminated at once.
ShutdownBegin(t) ==
    /\ pc[t] = ShutdownEntry(t)
    /\ IF ~is_running
       THEN /\ pc' = [pc EXCEPT ![t] = Ret(t)]
            /\ UNCHANGED <<is_running, request_id, rid, got, ev, wire,
                           response_events, responses, outcome, proc,
                           terminate_calls, shutdown_writes>>
       ELSE /\ is_running' = FALSE
            /\ IF ShutdownCanSend
               THEN \E w \in WriteOutcomes :
                      /\ SendRequestWrite(t, "shutdown", "none", w)
                      /\ IF w = "ok"
                         THEN /\ pc' = [pc EXCEPT ![t] = "sd_wait"]
                              /\ shutdown_writes' = shutdown_writes + 1
                              /\ UNCHANGED <<proc, terminate_calls>>
                         ELSE /\ pc' = [pc EXCEPT ![t] = "sd_term"]
                              /\ proc' = "exited"
                              /\ terminate_calls' = terminate_calls + 1
                              /\ UNCHANGED shutdown_writes
               ELSE /\ pc' = [pc EXCEPT ![t] = "sd_term"]
                    /\ proc' = IF process = "set" THEN "exited" ELSE proc
                    /\ terminate_calls' =
                          IF process = "set" THEN terminate_calls + 1
                          ELSE terminate_calls
                    /\ UNCHANGED <<request_id, rid, got, ev, wire,
                                   response_events, responses, outcome,
                                   shutdown_writes>>
    /\ UNCHANGED <<docker_mode, request_timeout, process, writer, closing,
                   server_capabilities, inbox, reader, reader_err,
                   timed_out>>
    /\ UNCHANGED <<evars, pvars>>

\* The wait for the `shutdown` response ends; `exit` is sent unless the
\* 5 s wait_for cancelled the request; then process.terminate().
\*   how = "wake"   the response arrived
\*   how = "inner"  _send_request's own timeout (request_timeout) expired
\*   how = "outer"  wait_for(..., 5.0) expired first
ShutdownAnswered(t, how) ==
    /\ pc[t] = "sd_wait"
    /\ how = "wake" => ev[t]
    /\ how = "inner" => EffectiveTimeout("shutdown") <= ShutdownTimeout
    /\ how = "outer" => ShutdownTimeout <= EffectiveTimeout("shutdown")
    /\ SendRequestEnd(t, IF how = "wake" THEN "wake" ELSE "timeout")
    /\ IF how = "outer"
       THEN wire' = wire
       ELSE \E w \in WriteOutcomes : wire' = SendNotification(w, "exit", "none")
    /\ proc' = IF process = "set" THEN "exited" ELSE proc
    /\ terminate_calls' = IF process = "set" THEN terminate_calls + 1
                          ELSE terminate_calls
    /\ pc' = [pc EXCEPT ![t] = "sd_term"]
    /\ UNCHANGED <<docker_mode, request_timeout, is_running, process, writer,
                   closing, request_id, server_capabilities, rid, inbox, reader,
                   reader_err, shutdown_writes>>
    /\ UNCHANGED <<evars, pvars>>

\* process.wait() returned (after terminate, or after kill): the handles are
\* dropped and the maps cleared.
ShutdownFinish(t) ==
    /\ pc[t] = "sd_term"
    /\ process' = "None"
    /\ closing' = IF ~docker_mode /\ writer = "set" THEN TRUE ELSE closing
    /\ writer' = IF ~docker_mode THEN "None" ELSE writer
    /\ responses' = EmptyDict
    /\ response_events' = EmptyDict
    /\ request_id' = 0
    /\ pc' = [pc EXCEPT ![t] = Ret(t)]
    /\ UNCHANGED <<docker_mode, request_timeout, is_running, proc,
                   server_capabilities, ev, rid, outcome, got, wire,
                   inbox, reader, reader_err, timed_out, terminate_calls, shutdown_writes>>
    /\ UNCHANGED <<evars, pvars>>

(***************************************************************************)
(* start_server: _start_standalone_server / _start_docker_server, with     *)
(* _initialize.                                                            *)
(***************************************************************************)
\* No command, executable or image not found: False, nothing started.
StartFail ==
    /\ pc[Starter] = "idle"
    /\ pc' = [pc EXCEPT ![Starter] = "ret_false"]
    /\ UNCHANGED <<docker_mode, request_timeout, is_running, process, proc,
                   writer, closing, request_id, responses, response_events,
                   server_capabilities, ev, rid, outcome, got, wire,
                   inbox, reader, reader_err, timed_out, terminate_calls, shutdown_writes>>
    /\ UNCHANGED <<evars, pvars>>

\* Standalone: the process is spawned, the tasks are created and the
\* `initialize` request is written without an intervening await.  A write
\* that raises leaves through `except Exception: return False`.
StartStandalone ==
    /\ pc[Starter] = "idle"
    /\ ~docker_mode
    /\ process' = "set"
    /\ writer' = "set"
    /\ closing' = FALSE
    /\ is_running' = TRUE
    /\ reader' = "reading"
    /\ \E p \in {"live", "exited"} :
          /\ proc' = p
          /\ \E w \in (IF p = "live" THEN {"ok"} ELSE {"ok", "raise"}) :
                /\ SendRequestWrite(Starter, "initialize", "none", w)
                /\ pc' = [pc EXCEPT ![Starter] =
                             IF w = "ok" THEN "init_wait" ELSE "ret_false"]
    /\ UNCHANGED <<docker_mode, request_timeout, server_capabilities, inbox,
                   reader_err, timed_out, terminate_calls, shutdown_writes>>
    /\ UNCHANGED <<evars, pvars>>

\* Docker mode: the container process is spawned, then sleep(0.5).
StartDockerSpawn ==
    /\ pc[Starter] = "idle"
    /\ docker_mode
    /\ process' = "set"
    /\ proc' = "live"
    /\ pc' = [pc EXCEPT ![Starter] = "spawned"]
    /\ UNCHANGED <<docker_mode, request_timeout, is_running, writer, closing,
                   request_id, responses, response_events,
                   server_capabilities, ev, rid, outcome, got, wire,
                   inbox, reader, reader_err, timed_out, terminate_calls, shutdown_writes>>
    /\ UNCHANGED <<evars, pvars>>

\* After the sleep: a process that has exited gives False; otherwise the
\* tasks are created and `initialize` is written.
StartDockerInit ==
    /\ pc[Starter] = "spawned"
    /\ IF proc = "exited"
       THEN /\ pc' = [pc EXCEPT ![Starter] = "ret_false"]
            /\ UNCHANGED <<is_running, reader, request_id, rid, got, ev,
                           wire, response_events, responses, outcome>>
       ELSE /\ is_running' = TRUE
            /\ reader' = "reading"
            /\ \E w \in WriteOutcomes :
                  /\ SendRequestWrite(Starter, "initialize", "none", w)
                  /\ pc' = [pc EXCEPT ![Starter] =
                               IF w = "ok" THEN "init_wait" ELSE "sd_call"]
    /\ UNCHANGED <<docker_mode, request_timeout, process, proc, writer,
                   closing, server_capabilities, inbox, reader_err,
                   timed_out, terminate_calls, shutdown_writes>>
    /\ UNCHANGED <<evars, pvars>>

\* _initialize after _send_request returned (how = "wake" or "inner"): the
\* capabilities are recorded when the result has them, and `initialized` is
\* sent whatever the result was; start_server returns True.  A raising
\* write returns False (standalone) or runs shutdown() first (docker).
InitReturned(how) ==
    /\ pc[Starter] = "init_wait"
    /\ how = "wake" => ev[Starter]
    /\ how = "inner" => EffectiveTimeout("initialize") <= InitTimeout
    /\ SendRequestEnd(Starter, IF how = "wake" THEN "wake" ELSE "timeout")
    /\ server_capabilities' =
          (server_capabilities \/ PoppedResponse(Starter, how).k = "result")
    /\ \E w \in WriteOutcomes :
          /\ wire' = SendNotification(w, "initialized", "none")
          /\ pc' = [pc EXCEPT ![Starter] =
                       IF w = "ok" THEN "ret_true"
                       ELSE IF docker_mode THEN "sd_call" ELSE "ret_false"]
    /\ UNCHANGED <<docker_mode, request_timeout, is_running, process, proc,
                   writer, closing, request_id, rid, inbox, reader, reader_err, terminate_calls, shutdown_writes>>
    /\ UNCHANGED <<evars, pvars>>

\* wait_for(self._initialize(...), timeout=30.0) expired: the request is
\* cancelled (its finally block runs) and shutdown() is called.
InitDeadline ==
    /\ pc[Starter] = "init_wait"
    /\ InitTimeout <= EffectiveTimeout("initialize")
    /\ SendRequestEnd(Starter, "timeout")
    /\ pc' = [pc EXCEPT ![Starter] = "sd_call"]
    /\ UNCHANGED <<docker_mode, request_timeout, is_running, process, proc,
                   writer, closing, request_id, server_capabilities, rid,
                   wire, inbox, reader, reader_err, terminate_calls, shutdown_writes>>
    /\ UNCHANGED <<evars, pvars>>

ServerStep ==
    \/ \E kind \in {"result", "error"} : ServerRespond(kind)
    \/ \E kind \in {"notif", "bad"} : ServerEmit(kind)
    \/ ServerExit

ReaderStep ==
    \/ ReaderHandle
    \/ ReaderTransportError
    \/ ReaderEOF

StartStep ==
    \/ StartFail
    \/ StartStandalone
    \/ StartDockerSpawn
    \/ StartDockerInit
    \/ \E how \in {"wake", "inner"} : InitReturned(how)
    \/ InitDeadline

ShutdownStep(T) ==
    \/ \E t \in T : ShutdownBegin(t)
    \/ \E t \in T, how \in {"wake", "inner", "outer"} : ShutdownAnswered(t, how)
    \/ \E t \in T : ShutdownFinish(t)

UserStep(T) ==
    \/ \E t \in T, m \in QueryMethods : UserRequest(t, m)
    \/ \E t \in T : UserWake(t)
    \/ \E t \in T : UserTimeout(t)

\* Two users and the start.
Next ==
    \/ UserStep(Users)
    \/ ServerStep
    \/ ReaderStep
    \/ StartStep
    \/ ShutdownStep({Starter})

Spec == Init /\ [][Next]_vars

\* One user, a task that calls shutdown(), and the start.
NextLifecycle ==
    \/ UserStep({"u1"})
    \/ ServerStep
    \/ ReaderStep
    \/ StartStep
    \/ ShutdownStep(Shutters \cup {Starter})

SpecLifecycle == Init /\ [][NextLifecycle]_vars

\* Callers of did_open_file on a session.
NextOpen ==
    \/ \E u \in Uris : DidOpenFile(u)
    \/ ServerStep
    \/ ReaderStep
    \/ StartStep
    \/ ShutdownStep({Starter})

SpecOpen == Init /\ [][NextOpen]_vars

\* One user of a session whose server may stop reading its input.
NextDeadline ==
    \/ UserStep({"u1"})
    \/ \E m \in QueryMethods : UserRequestBlocked("u1", m)
    \/ UserUnblocked("u1")
    \/ ServerStep
    \/ ServerStall
    \/ ReaderStep
    \/ StartStep
    \/ ShutdownStep({Starter})

\* The event loop runs a coroutine that can go on and fires the timer of a
\* wait_for; nothing is assumed of the server.
SpecDeadline ==
    /\ Init
    /\ [][NextDeadline]_vars
    /\ WF_vars(UserWake("u1") \/ UserTimeout("u1") \/ UserUnblocked("u1"))

(***************************************************************************)
(* DockerLSPClient (lsp_client/docker_lsp_client.py): start_server and     *)
(* shutdown(), the latter called by two tasks.  The client has no          *)
(* _is_running guard in shutdown() and its writes swallow their errors.    *)
(***************************************************************************)
\* _write_message: nothing is written without a process; a write to a
\* process that has exited is buffered or raises, and the error is logged.
DockerWriteOutcomes ==
    IF process # "set" THEN {FALSE}
    ELSE IF proc = "exited" THEN BOOLEAN
    ELSE {TRUE}

DockerWrite(written, msg) ==
    IF written THEN wire (+) SetToBag({msg}) ELSE wire

\* _send_request up to the wait: id, Event, write.
DockerSendRequestWrite(t, m, written) ==
    LET i == request_id + 1 IN
    /\ request_id' = i
    /\ rid' = [rid EXCEPT ![t] = i]
    /\ got' = [got EXCEPT ![t] = NoMsg]
    /\ ev' = [ev EXCEPT ![t] = FALSE]
    /\ response_events' = Put(response_events, i, t)
    /\ outcome' = [outcome EXCEPT ![t] = "pending"]
    /\ wire' = DockerWrite(written, Request(i, m, "none"))

\* _send_request after the wait: the response is popped when the Event was
\* set; the finally block pops the Event only.
DockerSendRequestEnd(t, how) ==
    LET resp == PoppedResponse(t, how) IN
    /\ got' = [got EXCEPT ![t] = resp]
    /\ outcome' = [outcome EXCEPT ![t] =
            IF how = "wake" THEN (IF resp = NoMsg THEN "empty" ELSE resp.k)
            ELSE "timeout"]
    /\ ev' = [ev EXCEPT ![t] = FALSE]
    /\ responses' = IF how = "wake" THEN Pop(responses, rid[t]) ELSE responses
    /\ response_events' = Pop(response_events, rid[t])
    /\ timed_out' = IF how = "wake" THEN timed_out ELSE timed_out \cup {rid[t]}

\* No docker_image configured, or the image is not found.
DockerStartFail ==
    /\ pc[Starter] = "idle"
    /\ pc' = [pc EXCEPT ![Starter] = "ret_false"]
    /\ UNCHANGED <<docker_mode, request_timeout, is_running, process, proc,
                   writer, closing, request_id, responses, response_events,
                   server_capabilities, ev, rid, outcome, got, wire, inbox,
                   reader, reader_err, timed_out, terminate_calls,
                   shutdown_writes>>
    /\ UNCHANGED <<evars, pvars>>

\* `docker run` is spawned, the reader task created, `initialize` written.
DockerStart ==
    /\ pc[Starter] = "idle"
    /\ process' = "set"
    /\ is_running' = TRUE
    /\ reader' = "reading"
    /\ \E p \in {"live", "exited"} :
          /\ proc' = p
          /\ \E written \in (IF p = "live" THEN {TRUE} ELSE BOOLEAN) :
                DockerSendRequestWrite(Starter, "initialize", written)
    /\ pc' = [pc EXCEPT ![Starter] = "init_wait"]
    /\ UNCHANGED <<docker_mode, request_timeout, writer, closing, responses,
                   server_capabilities, inbox, reader_err, timed_out,
                   terminate_calls, shutdown_writes>>
    /\ UNCHANGED <<evars, pvars>>

\* _initialize after _send_request returned; `initialized` is sent whatever
\* the result was, and start_server returns True.
DockerInitReturned(how) ==
    /\ pc[Starter] = "init_wait"
    /\ how = "wake" => ev[Starter]
    /\ how = "inner" => EffectiveTimeout("initialize") <= InitTimeout
    /\ DockerSendRequestEnd(Starter, IF how = "wake" THEN "wake" ELSE "timeout")
    /\ server_capabilities' =
          (server_capabilities \/ PoppedResponse(Starter, how).k = "result")
    /\ \E written \in DockerWriteOutcomes :
          wire' = DockerWrite(written, Notification("initialized", "none"))
    /\ pc' = [pc EXCEPT ![Starter] = "ret_true"]
    /\ UNCHANGED <<docker_mode, request_timeout, is_running, process, proc,
                   writer, closing, request_id, rid, inbox, reader,
                   reader_err, terminate_calls, shutdown_writes>>
    /\ UNCHANGED <<evars, pvars>>

\* wait_for(self._initialize(...), 30.0) expired: shutdown() is called.
DockerInitDeadline ==
    /\ pc[Starter] = "init_wait"
    /\ InitTimeout <= EffectiveTimeout("initialize")
    /\ DockerSendRequestEnd(Starter, "timeout")
    /\ pc' = [pc EXCEPT ![Starter] = "sd_call"]
    /\ UNCHANGED <<docker_mode, request_timeout, is_running, process, proc,
                   writer, closing, request_id, server_capabilities, rid,
                   wire, inbox, reader, reader_err, terminate_calls,
                   shutdown_writes>>
    /\ UNCHANGED <<evars, pvars>>

\* The tail of shutdown(): self.container is None, so container.kill()
\* raises, the error is logged and the finally block resets the client.
DockerShutdownTail(t) ==
    /\ is_running' = FALSE
    /\ request_id' = 0
    /\ responses' = EmptyDict
    /\ response_events' = EmptyDict
    /\ pc' = [pc EXCEPT ![t] = Ret(t)]

\* shutdown() up to its first wait: the flag is cleared and, with a
\* process, the `shutdown` request is written.
DockerShutdownBegin(t) ==
    /\ pc[t] = ShutdownEntry(t)
    /\ IF process = "set"
       THEN /\ is_running' = FALSE
            /\ \E written \in DockerWriteOutcomes :
                  /\ DockerSendRequestWrite(t, "shutdown", written)
                  /\ shutdown_writes' = IF written THEN shutdown_writes + 1
                                        ELSE shutdown_writes
            /\ pc' = [pc EXCEPT ![t] = "sd_wait"]
            /\ UNCHANGED responses
       ELSE /\ DockerShutdownTail(t)
            /\ UNCHANGED <<rid, got, ev, outcome, wire, shutdown_writes>>
    /\ UNCHANGED <<docker_mode, request_timeout, process, proc, writer,
                   closing, server_capabilities, inbox, reader, reader_err,
                   timed_out, terminate_calls>>
    /\ UNCHANGED <<evars, pvars>>

\* The wait for the `shutdown` response ended (how = "wake" or "timeout"):
\* `exit` is sent, then self.process.terminate().  Without a process the
\* call raises and shutdown() ends through its except and finally blocks;
\* on a process that has exited terminate() may raise likewise.
DockerShutdownAnswered(t, how) ==
    /\ pc[t] = "sd_wait"
    /\ how = "wake" => ev[t]
    /\ LET resp == PoppedResponse(t, how) IN
         /\ got' = [got EXCEPT ![t] = resp]
         /\ outcome' = [outcome EXCEPT ![t] =
               IF how = "wake" THEN (IF resp = NoMsg THEN "empty" ELSE resp.k)
               ELSE "timeout"]
    /\ ev' = [ev EXCEPT ![t] = FALSE]
    /\ timed_out' = IF how = "wake" THEN timed_out ELSE timed_out \cup {rid[t]}
    /\ \E written \in DockerWriteOutcomes :
          wire' = DockerWrite(written, Notification("exit", "none"))
    /\ IF process = "set"
       THEN /\ terminate_calls' = terminate_calls + 1
            /\ proc' = "exited"
            /\ \E raised \in (IF proc = "exited" THEN BOOLEAN ELSE {FALSE}) :
                  IF raised
                  THEN DockerShutdownTail(t)
                  ELSE /\ pc' = [pc EXCEPT ![t] = "sd_term"]
                       /\ responses' =
                             IF how = "wake" THEN Pop(responses, rid[t])
                             ELSE responses
                       /\ response_events' = Pop(response_events, rid[t])
                       /\ UNCHANGED <<is_running, request_id>>
       ELSE /\ DockerShutdownTail(t)
            /\ UNCHANGED <<terminate_calls, proc>>
    /\ UNCHANGED <<docker_mode, request_timeout, process, writer, closing,
                   server_capabilities, rid, inbox, reader, reader_err,
                   shutdown_writes>>
    /\ UNCHANGED <<evars, pvars>>

\* process.wait() returned: process = None, then the tail.
DockerShutdownFinish(t) ==
    /\ pc[t] = "sd_term"
    /\ process' = "None"
    /\ DockerShutdownTail(t)
    /\ UNCHANGED <<docker_mode, request_timeout, proc, writer, closing,
                   server_capabilities, ev, rid, outcome, got, wire, inbox,
                   reader, reader_err, timed_out, terminate_calls,
                   shutdown_writes>>
    /\ UNCHANGED <<evars, pvars>>

\* _handle_message on the maps: only a message with a result is a response.
DockerHandleResponses(m) ==
    IF m.k = "result" THEN Put(responses, m.id, m) ELSE responses

DockerHandleWakes(m) ==
    IF m.k = "result" /\ m.id \in DOMAIN response_events
    THEN {response_events[m.id]} ELSE {}

\* _message_reader_loop, one iteration: a message is read and handled, an
\* undecodable frame or the end of the stream ends the loop.
DockerReader ==
    /\ reader = "reading"
    /\ \/ /\ inbox # <<>>
          /\ Head(inbox).k # "bad"
          /\ responses' = DockerHandleResponses(Head(inbox))
          /\ ev' = [t \in Tasks |-> ev[t] \/ t \in DockerHandleWakes(Head(inbox))]
          /\ inbox' = Tail(inbox)
          /\ reader' = IF LoopCondition THEN "reading" ELSE "stopped"
          /\ UNCHANGED reader_err
       \/ /\ inbox # <<>>
          /\ Head(inbox).k = "bad"
          /\ inbox' = Tail(inbox)
          /\ reader' = "stopped"
          /\ reader_err' = TRUE
          /\ UNCHANGED <<responses, ev>>
       \/ /\ inbox = <<>>
          /\ proc = "exited"
          /\ reader' = "stopped"
          /\ UNCHANGED <<responses, ev, inbox, reader_err>>
    /\ UNCHANGED <<docker_mode, request_timeout, is_running, process, proc,
                   writer, closing, request_id, response_events,
                   server_capabilities, pc, rid, outcome, got, wire,
                   timed_out, terminate_calls, shutdown_writes>>
    /\ UNCHANGED <<evars, pvars>>

NextDocker ==
    \/ DockerStartFail
    \/ DockerStart
    \/ \E how \in {"wake", "inner"} : DockerInitReturned(how)
    \/ DockerInitDeadline
    \/ \E t \in DockerShutters \cup {Starter} : DockerShutdownBegin(t)
    \/ \E t \in DockerShutters \cup {Starter}, how \in {"wake", "timeout"} :
          DockerShutdownAnswered(t, how)
    \/ \E t \in DockerShutters \cup {Starter} : DockerShutdownFinish(t)
    \/ ServerStep
    \/ DockerReader

\* The extractor builds a DockerLSPClient when it is told to use Docker.
InitDocker == Init /\ docker_mode

SpecDocker == InitDocker /\ [][NextDocker]_vars

(***************************************************************************)
(* LSP_Extractor.run_extraction: one task that starts a server per         *)
(* language, extracts and checks the symbols of every file, extracts the   *)
(* references of every symbol, and shuts the servers down.                 *)
(***************************************************************************)
InSeq(x, q) == \E n \in DOMAIN q : q[n] = x

\* LSPRange.contains
contains(self, other) ==
    /\ \/ self.sl < other.sl
       \/ self.sl = other.sl /\ self.sc <= other.sc
    /\ \/ self.el > other.el
       \/ self.el = other.el /\ self.ec >= other.ec

\* The sort key of find_symbol_within_range and its order on tuples.
SizeKey(s) == <<Range[s].el - Range[s].sl, Range[s].ec - Range[s].sc>>
KeyLess(a, b) == a[1] < b[1] \/ (a[1] = b[1] /\ a[2] < b[2])

\* FileModel.find_symbol_within_range over the symbol list syms: the
\* containing symbols, stably sorted by size, first one.
find_symbol_within_range(syms, ref_range) ==
    LET containing == SelectSeq(syms, LAMBDA s : contains(Range[s], ref_range))
    IN IF containing = <<>> THEN None
       ELSE containing[CHOOSE i \in DOMAIN containing :
                /\ \A j \in DOMAIN containing :
                      ~KeyLess(SizeKey(containing[j]), SizeKey(containing[i]))
                /\ \A j \in 1..(i - 1) :
                      KeyLess(SizeKey(containing[i]), SizeKey(containing[j]))]

\* FolderModel.find_from_file_path
find_from_file_path(fp) == IF InSeq(fp, Files) THEN fp ELSE None

\* Variant of linking_call_symbols that records the caller only.
linking_call_symbols_OneSided(self, target, link) ==
    IF /\ target # self
       /\ ~InSeq(target, link.calling[self])
       /\ ~InSeq(self, link.called[target])
    THEN [calling |-> [link.calling EXCEPT ![self] = Append(@, target)],
          called |-> link.called]
    ELSE link

\* Variant of linking_call_symbols that records the callee's side only.
linking_call_symbols_CalledOnly(self, target, link) ==
    IF /\ target # self
       /\ ~InSeq(target, link.calling[self])
       /\ ~InSeq(self, link.called[target])
    THEN [calling |-> link.calling,
          called |-> [link.called EXCEPT ![target] = Append(@, self)]]
    ELSE link

\* Variant of linking_call_symbols without its three tests.
linking_call_symbols_Unguarded(self, target, link) ==
    [calling |-> [link.calling EXCEPT ![self] = Append(@, target)],
     called |-> [link.called EXCEPT ![target] = Append(@, self)]]

\* SymbolModel.linking_call_symbols on link = [calling, called].
linking_call_symbols(self, target, link) ==
    IF /\ target # self
       /\ ~InSeq(target, link.calling[self])
       /\ ~InSeq(self, link.called[target])
    THEN [calling |-> [link.calling EXCEPT ![self] = Append(@, target)],
          called |-> [link.called EXCEPT ![target] = Append(@, self)]]
    ELSE link

\* Variant of _match_reference_to_symbol that returns at the first reference
\* whose file is not found instead of continuing with the next one.
RECURSIVE match_reference_to_symbol_StopAtUnresolved(_, _, _, _)
match_reference_to_symbol_StopAtUnresolved(references, symbol, n, link) ==
    IF n > Len(references) THEN link
    ELSE LET ref == references[n]
             temp_file == find_from_file_path(ref.file)
             temp_symbol == IF temp_file = None THEN None
                            ELSE find_symbol_within_range(symbols[temp_file], ref.range)
             linked == IF temp_symbol # None /\ temp_symbol \notin child_symbols(symbol)
                       THEN linking_call_symbols(symbol, temp_symbol, link)
                       ELSE link
         IN IF temp_file = None THEN link
            ELSE match_reference_to_symbol_StopAtUnresolved(references, symbol,
                                                            n + 1, linked)

\* _match_reference_to_symbol: the loop over the references, from index n.
RECURSIVE match_reference_to_symbol(_, _, _, _)
match_reference_to_symbol(references, symbol, n, link) ==
    IF n > Len(references) THEN link
    ELSE LET ref == references[n]
             temp_file == find_from_file_path(ref.file)
             temp_symbol == IF temp_file = None THEN None
                            ELSE find_symbol_within_range(symbols[temp_file], ref.range)
             linked == IF temp_symbol # None /\ temp_symbol \notin child_symbols(symbol)
                       THEN linking_call_symbols(symbol, temp_symbol, link)
                       ELSE link
         IN match_reference_to_symbol(references, symbol, n + 1, linked)

\* The references the loop of _match_reference_to_symbol gets through: it
\* ends at the first reference of a project file whose range makes
\* json_to_range raise.
Processed(references) ==
    LET bad == {n \in DOMAIN references :
                   /\ find_from_file_path(references[n].file) # None
                   /\ references[n].range = BadRange}
    IN IF bad = {} THEN references
       ELSE SubSeq(references, 1, (CHOOSE n \in bad : \A m \in bad : n <= m) - 1)

\* _is_definition on the result of the definition request.
is_definition(s, definition_result) ==
    \E n \in DOMAIN definition_result :
        /\ definition_result[n].key = "selectionRange"
        /\ definition_result[n].range = SelectionRange[s]

\* The test of _extract_symbols before did_open_file.
NeedsOpen_Never(f) == FALSE

NeedsOpen(f) == f \notin opened_files

\* A client's write of (method m, file f) to the server of language l: it
\* reaches the server only while the process is up.
Written(l, m, f) ==
    IF servers[l] = "up"
    THEN [sent EXCEPT ![l] = Append(@, [method |-> m, file |-> f])]
    ELSE sent

\* did_open_file's return value: DockerLSPClient returns True whenever the
\* file could be read (_write_message swallows write errors); the
\* standalone client returns False when the write raises.
did_open_ok(l, readable) ==
    readable /\ (docker_mode \/ servers[l] = "up")

\* file.symbols of all files, in the order extract_references visits them.
RECURSIVE AllSymbols(_, _)
AllSymbols(syms, n) ==
    IF n > Len(Files) THEN <<>> ELSE syms[Files[n]] \o AllSymbols(syms, n + 1)

\* The loop of extract_and_filter_symbols moves to the next file, or
\* extract_references starts.
FileDone(syms) ==
    IF fi < Len(Files)
    THEN step' = "open" /\ fi' = fi + 1 /\ si' = 1 /\ li' = li
    ELSE /\ step' = IF AllSymbols(syms, 1) = <<>> THEN "shutdown" ELSE "references"
         /\ fi' = fi /\ si' = 1 /\ li' = 1

\* Variant of StartServer in which a failed start ends the run.
StartServer_FailureAborts ==
    /\ step = "start"
    /\ \E ok \in BOOLEAN :
          /\ servers' = [servers EXCEPT ![Languages[li]] = IF ok THEN "up" ELSE "failed"]
          /\ IF ~ok THEN li' = li /\ step' = "aborted"
             ELSE IF li < Len(Languages)
             THEN li' = li + 1 /\ step' = step
             ELSE li' = 1 /\ step' = "open"
    /\ UNCHANGED <<fi, si, opened_files, sent, symbols, def_result,
                   calling_symbols, called_symbols, seen>>
    /\ UNCHANGED <<svars, pvars>>

\* Variant of the except clause that lets the exception end the run.
FileFailed_Reraise(syms) ==
    step' = "aborted" /\ UNCHANGED <<li, fi, si>>

\* The except clause of extract_and_filter_symbols: the error is logged and
\* the loop goes on with the next file.
FileFailed(syms) == FileDone(syms)

\* add_server and _start_server for the next language; a failed start is
\* logged and the run goes on.
StartServer ==
    /\ step = "start"
    /\ \E ok \in BOOLEAN :
          servers' = [servers EXCEPT ![Languages[li]] = IF ok THEN "up" ELSE "failed"]
    /\ IF li < Len(Languages)
       THEN li' = li + 1 /\ step' = step
       ELSE li' = 1 /\ step' = "open"
    /\ UNCHANGED <<fi, si, opened_files, sent, symbols, def_result,
                   calling_symbols, called_symbols, seen>>
    /\ UNCHANGED <<svars, pvars>>

\* A server process exits, or its pipe breaks.
ServerDies(l) ==
    /\ servers[l] = "up"
    /\ servers' = [servers EXCEPT ![l] = "broken"]
    /\ UNCHANGED <<step, li, fi, si, opened_files, sent, symbols, def_result,
                   calling_symbols, called_symbols, seen>>
    /\ UNCHANGED <<svars, pvars>>

\* _extract_symbols up to did_open_file's return.
OpenFile ==
    /\ step = "open"
    /\ LET f == Files[fi]
           l == Language[f]
       IN IF NeedsOpen(f)
          THEN \E readable \in BOOLEAN :
                 /\ sent' = IF readable
                            THEN Written(l, "textDocument/didOpen", f)
                            ELSE sent
                 /\ IF did_open_ok(l, readable)
                    THEN /\ opened_files' = opened_files \cup {f}
                         /\ step' = "symbols"
                         /\ UNCHANGED <<li, fi, si, symbols>>
                    ELSE /\ opened_files' = opened_files
                         /\ symbols' = [symbols EXCEPT ![f] = <<>>]
                         /\ FileDone(symbols')
          ELSE /\ step' = "symbols"
               /\ UNCHANGED <<li, fi, si, symbols, sent, opened_files>>
    /\ UNCHANGED <<servers, def_result, calling_symbols, called_symbols, seen>>
    /\ UNCHANGED <<svars, pvars>>

\* get_document_symbols and _process_lsp_symbols: the server's tree, no
\* result, or a tree _process_lsp_symbols raises on (file.symbols is left
\* as it was and the except clause moves to the next file).
QuerySymbols ==
    /\ step = "symbols"
    /\ LET f == Files[fi]
           l == Language[f]
       IN /\ sent' = Written(l, "textDocument/documentSymbol", f)
          /\ \E res \in (IF servers[l] = "up" THEN {"tree", "none", "raise"}
                                               ELSE {"none"}) :
                /\ symbols' = IF res = "raise" THEN symbols
                              ELSE [symbols EXCEPT ![f] =
                                      IF res = "tree" THEN DocumentSymbols[f]
                                      ELSE <<>>]
                /\ IF res = "tree"
                   THEN step' = "definition" /\ si' = 1 /\ UNCHANGED <<li, fi>>
                   ELSE IF res = "raise" THEN FileFailed(symbols')
                   ELSE FileDone(symbols')
    /\ UNCHANGED <<servers, opened_files, def_result, calling_symbols,
                   called_symbols, seen>>
    /\ UNCHANGED <<svars, pvars>>

\* One iteration of the loop over file.symbols: _is_definition.  The
\* removal of a non-definition is commented out in the source.
CheckDefinition ==
    /\ step = "definition"
    /\ LET f == Files[fi]
           l == Language[f]
           s == symbols[f][si]
       IN /\ sent' = Written(l, "textDocument/definition", f)
          /\ \E r \in (IF servers[l] = "up" THEN DefResults(s) ELSE {NoResult}) :
                def_result' = [def_result EXCEPT ![s] =
                                  IF is_definition(s, r) THEN "definition"
                                  ELSE "not_definition"]
          /\ IF si < Len(symbols[f])
             THEN si' = si + 1 /\ UNCHANGED <<step, li, fi>>
             ELSE FileDone(symbols)
    /\ UNCHANGED <<servers, opened_files, symbols, calling_symbols,
                   called_symbols, seen>>
    /\ UNCHANGED <<svars, pvars>>

\* One iteration of extract_references: _find_references and
\* _match_reference_to_symbol; when the latter raises, the except clause
\* moves to the next symbol.
FindReferences ==
    /\ step = "references"
    /\ LET all == AllSymbols(symbols, 1)
           s == all[si]
           f == CHOOSE x \in {"f1", "f2"} : InSeq(s, symbols[x])
           l == Language[f]
       IN /\ sent' = Written(l, "textDocument/references", f)
          /\ \E references \in (IF servers[l] = "up" THEN RefResults ELSE {<<>>}) :
                LET done == Processed(references)
                    link == match_reference_to_symbol(done, s, 1,
                                [calling |-> calling_symbols,
                                 called |-> called_symbols])
                IN /\ calling_symbols' = link.calling
                   /\ called_symbols' = link.called
                   /\ seen' = {[callee |-> s, loc |-> done[n]] :
                                   n \in DOMAIN done}
          /\ IF si < Len(all)
             THEN si' = si + 1 /\ UNCHANGED <<step, li>>
             ELSE si' = 1 /\ li' = 1 /\ step' = "shutdown"
    /\ UNCHANGED <<fi, servers, opened_files, symbols, def_result>>
    /\ UNCHANGED <<svars, pvars>>

\* server.shutdown() for the next server.
ShutdownServer ==
    /\ step = "shutdown"
    /\ servers' = [servers EXCEPT ![Languages[li]] =
                        IF @ = "failed" THEN @ ELSE "down"]
    /\ IF li < Len(Languages)
       THEN li' = li + 1 /\ step' = step
       ELSE li' = li /\ step' = "done"
    /\ UNCHANGED <<fi, si, opened_files, sent, symbols, def_result,
                   calling_symbols, called_symbols, seen>>
    /\ UNCHANGED <<svars, pvars>>

NextExtract ==
    \/ StartServer
    \/ \E l \in {"python", "java"} : ServerDies(l)
    \/ OpenFile
    \/ QuerySymbols
    \/ CheckDefinition
    \/ FindReferences
    \/ ShutdownServer

\* The extractor builds its clients with the default request timeout.
InitRun == Init /\ request_timeout = DefaultRequestTimeout

SpecExtract == InitRun /\ [][NextExtract]_vars

\* run_extraction ends with an exception: neither its loop over the
\* languages nor its two extraction calls are inside a try, so what the
\* callees do not handle leaves run_extraction at once.  The handlers of
\* extract_and_filter_symbols and extract_references catch Exception only,
\* which lets asyncio.CancelledError and KeyboardInterrupt pass at any await;
\* add_server raises AttributeError for a language without a configuration
\* entry.  The loop over self.servers.values() is not reached.
RunRaises ==
    /\ step \in {"start", "open", "symbols", "definition", "references"}
    /\ step' = "raised"
    /\ UNCHANGED <<li, fi, si, servers, opened_files, sent, symbols,
                   def_result, calling_symbols, called_symbols, seen>>
    /\ UNCHANGED <<svars, pvars>>

NextRun ==
    \/ NextExtract
    \/ RunRaises

SpecRun == InitRun /\ [][NextRun]_vars

\* The steps of run_extraction itself.
RunStep ==
    \/ StartServer
    \/ OpenFile
    \/ QuerySymbols
    \/ CheckDefinition
    \/ FindReferences
    \/ ShutdownServer

(***************************************************************************)
(* Helper functions, called on their own.  Strings that matter character   *)
(* by character (paths, URIs) are sequences of tokens: "/" , "file://" and *)
(* the names between separators.                                           *)
(***************************************************************************)
\* A documentSymbol result: n1 holds n2 (which holds n3) and n5; n4 follows
\* n1 at top level.  k gives the SymbolKind of every node.  `keys` is the
\* set of the optional keys of a node's dict: "children" is in it for the
\* nodes with children, and for the others when empty_lists says that the
\* server sends `children: []`; `children` is <<>> when the key is absent.
SymbolTree(k, empty_lists) ==
    LET node(n, ch) ==
            [name |-> n, kind |-> k[n], children |-> ch,
             keys |-> IF ch # <<>> \/ empty_lists THEN {"children"} ELSE {}]
    IN << node("n1", << node("n2", << node("n3", <<>>) >>),
                        node("n5", <<>>) >>),
          node("n4", <<>>) >>

\* LSPClient._filter_symbols_by_kind of lsp_client.py.
RECURSIVE filter_symbols_by_kind(_, _)
filter_symbols_by_kind(syms, wanted_kinds) ==
    IF wanted_kinds = {} THEN syms
    ELSE IF syms = <<>> THEN <<>>
    ELSE LET symbol == Head(syms)
             filtered_children ==
                 IF "children" \in symbol.keys /\ symbol.children # <<>>
                 THEN filter_symbols_by_kind(symbol.children, wanted_kinds)
                 ELSE <<>>
             filtered == filter_symbols_by_kind(Tail(syms), wanted_kinds)
             filtered_symbol ==
                 IF "children" \in symbol.keys
                 THEN IF filtered_children # <<>>
                      THEN [symbol EXCEPT !.children = filtered_children]
                      ELSE [symbol EXCEPT !.children = <<>>,
                                          !.keys = @ \ {"children"}]
                 ELSE symbol
         IN IF symbol.kind \in wanted_kinds \/ filtered_children # <<>>
            THEN <<filtered_symbol>> \o filtered
            ELSE filtered

\* Variant of DockerLSPClient._filter_symbols_by_kind that sets `children`
\* on every copy.
RECURSIVE docker_filter_symbols_by_kind_AlwaysSet(_, _)
docker_filter_symbols_by_kind_AlwaysSet(syms, wanted_kinds) ==
    IF wanted_kinds = {} THEN syms
    ELSE IF syms = <<>> THEN <<>>
    ELSE LET symbol == Head(syms)
             symbol_matches == symbol.kind \in wanted_kinds
             filtered_children ==
                 IF "children" \in symbol.keys
                 THEN docker_filter_symbols_by_kind_AlwaysSet(symbol.children,
                                                              wanted_kinds)
                 ELSE <<>>
             filtered ==
                 docker_filter_symbols_by_kind_AlwaysSet(Tail(syms),
                                                         wanted_kinds)
             symbol_copy ==
                 [symbol EXCEPT !.children = filtered_children,
                                !.keys = @ \cup {"children"}]
         IN IF symbol_matches \/ filtered_children # <<>>
            THEN <<symbol_copy>> \o filtered
            ELSE filtered

\* DockerLSPClient._filter_symbols_by_kind.
RECURSIVE docker_filter_symbols_by_kind(_, _)
docker_filter_symbols_by_kind(syms, wanted_kinds) ==
    IF wanted_kinds = {} THEN syms
    ELSE IF syms = <<>> THEN <<>>
    ELSE LET symbol == Head(syms)
             symbol_matches == symbol.kind \in wanted_kinds
             filtered_children ==
                 IF "children" \in symbol.keys
                 THEN docker_filter_symbols_by_kind(symbol.children,
                                                    wanted_kinds)
                 ELSE <<>>
             filtered ==
                 docker_filter_symbols_by_kind(Tail(syms), wanted_kinds)
             symbol_copy ==
                 IF filtered_children # <<>>
                 THEN [symbol EXCEPT !.children = filtered_children,
                                     !.keys = @ \cup {"children"}]
                 ELSE [symbol EXCEPT !.children = <<>>,
                                     !.keys = @ \ {"children"}]
         IN IF symbol_matches \/ filtered_children # <<>>
            THEN <<symbol_copy>> \o filtered
            ELSE filtered

\* LSPClient._filter_symbols_by_kind of standalone_lsp_client.py: a symbol
\* is looked into only when its own kind is wanted.
RECURSIVE standalone_filter_symbols_by_kind(_, _)
standalone_filter_symbols_by_kind(syms, wanted_kinds) ==
    IF syms = <<>> THEN <<>>
    ELSE LET symbol == Head(syms)
             filtered ==
                 standalone_filter_symbols_by_kind(Tail(syms), wanted_kinds)
             filtered_symbol ==
                 IF "children" \in symbol.keys /\ symbol.children # <<>>
                 THEN [symbol EXCEPT !.children =
                          standalone_filter_symbols_by_kind(@, wanted_kinds)]
                 ELSE symbol
         IN IF symbol.kind \in wanted_kinds
            THEN <<filtered_symbol>> \o filtered
            ELSE filtered

\* The calls of _filter_symbols_by_kind: every assignment of the kinds
\* Class (5), Method (6), Variable (13) to the nodes, every non-empty
\* symbol_kind list, each of the three clients, servers that leave
\* `children` out of a node without children and servers that send [].
FilterInputs ==
    LET SymbolKinds == {5, 6, 13}
    IN {[fn |-> "filter", client |-> c, syms |-> SymbolTree(k, e),
         wanted_kinds |-> w] :
           c \in {"unified", "docker", "standalone"},
           k \in [{"n1", "n2", "n3", "n4", "n5"} -> SymbolKinds],
           w \in (SUBSET SymbolKinds) \ {{}},
           e \in BOOLEAN}

FilterSymbols ==
    /\ arg.fn = "filter"
    /\ ~ret.done
    /\ ret' = [done |-> TRUE,
               value |->
                 CASE arg.client = "unified" ->
                        filter_symbols_by_kind(arg.syms, arg.wanted_kinds)
                   [] arg.client = "docker" ->
                        docker_filter_symbols_by_kind(arg.syms,
                                                      arg.wanted_kinds)
                   [] arg.client = "standalone" ->
                        standalone_filter_symbols_by_kind(arg.syms,
                                                          arg.wanted_kinds)]
    /\ UNCHANGED <<svars, evars, arg, stream, asked, wpc, db>>

\* str.replace: every occurrence of old, left to right, not overlapping.
RECURSIVE Replace(_, _, _)
Replace(s, old, new) ==
    IF Len(s) < Len(old) \/ old = <<>> THEN s
    ELSE IF SubSeq(s, 1, Len(old)) = old
         THEN new \o Replace(SubSeq(s, Len(old) + 1, Len(s)), old, new)
         ELSE <<Head(s)>> \o Replace(Tail(s), old, new)

\* The files of the project (FileModel.path, relative to the root): a.py
\* at the root and under one or two directories.
ProjectPaths ==
    LET dirs == {"src", "workspace", "my dir"}
    IN {<<"a.py">>}
         \cup {<<d, "/", "a.py">> : d \in dirs}
         \cup {<<d, "/", e, "/", "a.py">> : d \in dirs, e \in dirs}

\* The working directory of the process.
Cwd == <<"/", "tmp">>

get_lsp_path(file_path, root, useDocker) ==
    IF useDocker
    THEN <<"/", "workspace", "/">> \o Replace(file_path, <<"\\">>, <<"/">>)
    ELSE root \o <<"/">> \o file_path

\* DockerLSPClient: the URI its requests carry for file_path.
container_file_uri(file_path, workspace_path) ==
    <<"file://">> \o Replace(file_path, workspace_path, <<"/", "workspace">>)

\* LSPClient._local_file_uri: Path.as_uri() percent-encodes the path.
local_file_uri(file_path) ==
    LET quote(t) == IF t = "my dir" THEN "my%20dir" ELSE t
    IN <<"file://">> \o [i \in 1..Len(file_path) |-> quote(file_path[i])]

\* _uri_to_path; <<>> stands for None and for the empty string.
uri_to_path(uri) ==
    IF uri = <<>> THEN <<>>
    ELSE IF Head(uri) = "file://" THEN Tail(uri) ELSE uri

\* The path _match_reference_to_symbol looks up for a reference's uri.
reference_path(uri, root, useDocker) ==
    LET fp == uri_to_path(uri)
        stripped == IF useDocker /\ fp # <<>>
                    THEN Replace(fp, <<"/", "workspace", "/">>, <<>>)
                    ELSE fp
        under_root == /\ Len(stripped) > Len(root) + 1
                      /\ SubSeq(stripped, 1, Len(root) + 1) = root \o <<"/">>
    IN IF stripped # <<>> /\ Head(stripped) = "/" /\ under_root
       THEN SubSeq(stripped, Len(root) + 2, Len(stripped))
       ELSE stripped

\* ProjectModel.find_from_file_path on paths: both sides are resolved
\* against the working directory; <<>> stands for None.
find_file_by_path(file_path, files) ==
    LET resolve(p) == IF Head(p) = "/" THEN p ELSE Cwd \o <<"/">> \o p
        found == {f \in files : resolve(f) = resolve(file_path)}
    IN IF file_path = <<>> \/ found = {} THEN <<>>
       ELSE CHOOSE f \in found : TRUE

\* A project file, the project root and the mode of the extractor.
UriInputs ==
    {[fn |-> "uri", file |-> f, root |-> r, useDocker |-> m] :
       f \in ProjectPaths,
       r \in {<<"/", "home", "/", "proj">>, <<"/", "home", "/", "my dir">>},
       m \in BOOLEAN}

\* A file's path is turned into the URI sent to the server, and that URI
\* is converted back the way the URI of a reference is.
RoundTrip ==
    /\ arg.fn = "uri"
    /\ ~ret.done
    /\ LET lsp_path == get_lsp_path(arg.file, arg.root, arg.useDocker)
           uri == IF arg.useDocker
                  THEN container_file_uri(lsp_path, arg.root)
                  ELSE local_file_uri(lsp_path)
           fp == reference_path(uri, arg.root, arg.useDocker)
       IN ret' = [done |-> TRUE, uri |-> uri, path |-> fp,
                  value |-> find_file_by_path(fp, ProjectPaths)]
    /\ UNCHANGED <<svars, evars, arg, stream, asked, wpc, db>>

\* Variant of json.dumps that leaves non-ASCII characters as they are
\* (ensure_ascii=False).
json_dumps_Raw(text) == text

\* json.dumps with its default ensure_ascii=True, on the characters of a
\* message: a non-ASCII character becomes a \uXXXX escape of six ASCII
\* characters.
RECURSIVE json_dumps(_)
json_dumps(text) ==
    IF text = <<>> THEN <<>>
    ELSE (IF Head(text) = "é" THEN <<"\\", "u", "0", "0", "e", "9">>
          ELSE <<Head(text)>>) \o json_dumps(Tail(text))

\* _write_message / _write_lsp_message called by task t, up to its
\* `await drain()`: the header and the payload are handed to the write
\* handle (in one write, or in two writes with no await between them)
\* before any other task runs.  The standalone client puts len(content),
\* a number of characters, in the header; lsp_client.py the number of
\* bytes of the encoded content.
WriteMessage(t) ==
    /\ arg.fn = "write"
    /\ wpc[t] = "idle"
    /\ LET text == IF t = "w1" THEN <<"a">>
                   ELSE IF t = "w2" THEN <<"é">> ELSE <<"b", "é">>
           content == json_dumps(text)
           RECURSIVE encode(_)
           \* str.encode('utf-8'): "é" is two bytes
           encode(str) ==
               IF str = <<>> THEN <<>>
               ELSE (IF Head(str) = "é" THEN <<"c3", "a9">> ELSE <<Head(str)>>)
                       \o encode(Tail(str))
           content_bytes == encode(content)
           length == IF arg.client = "standalone" THEN Len(content)
                     ELSE Len(content_bytes)
       IN stream' = stream \o <<[header |-> length]>>
                      \o [n \in DOMAIN content_bytes |->
                            [byte |-> content_bytes[n], of |-> t]]
    /\ asked' = Append(asked, t)
    /\ wpc' = [wpc EXCEPT ![t] = "drain"]
    /\ UNCHANGED <<svars, evars, arg, ret, db>>

\* drain() returns to task t.
Drained(t) ==
    /\ wpc[t] = "drain"
    /\ wpc' = [wpc EXCEPT ![t] = "done"]
    /\ UNCHANGED <<svars, evars, arg, ret, stream, asked, db>>

\* _read_lsp_message on a stream that holds the header lines arg.lines
\* (a line is <<key, value>>, <<text>> without a colon, or <<>> for the
\* empty line; after the last one readline() returns b"") and then
\* arg.body.len bytes of payload.
ReadMessage ==
    /\ arg.fn = "read"
    /\ ~ret.done
    /\ LET None_ == [k |-> "None"]
           \* the header loop from line n on: the headers dict at `break`,
           \* or None_ at end of stream
           RECURSIVE read_headers(_, _)
           read_headers(n, headers) ==
               IF n > Len(arg.lines) THEN None_
               ELSE LET header_line == arg.lines[n]
                    IN IF header_line = <<>> THEN headers
                       ELSE IF Len(header_line) = 2
                       THEN read_headers(n + 1,
                               [headers EXCEPT ![header_line[1]] = header_line[2]])
                       ELSE read_headers(n + 1, headers)
           headers == read_headers(1, [k |-> "headers", content_length |-> 0,
                                       content_type |-> 0])
           content_length == headers.content_length
       IN ret' = [done |-> TRUE,
                  value |->
                    IF headers = None_ THEN None_
                    \* int() raises ValueError: except Exception
                    ELSE IF content_length \notin Int THEN None_
                    ELSE IF content_length <= 0 THEN None_
                    \* IncompleteReadError, or the `Incomplete read` test
                    ELSE IF arg.body.len < content_length THEN None_
                    \* UnicodeDecodeError, json.JSONDecodeError
                    ELSE IF arg.body.text # "json" THEN None_
                    ELSE [k |-> "message"]]
    /\ UNCHANGED <<svars, evars, arg, stream, asked, wpc, db>>

\* _process_lsp_symbols on a documentSymbol result of one symbol with one
\* child: every node is converted by _convert_lsp_symbol_to_model, which
\* takes `range` and `selectionRange` from the payload through
\* SymbolModel.create_range (a missing key, the empty dict, gives 0:0-0:0), and
\* is appended to the symbol list of the file, the parent before the child.
ProcessSymbols ==
    /\ arg.fn = "symbols"
    /\ ~ret.done
    /\ LET create_range(range) ==
               IF "sl" \in DOMAIN range THEN range
               ELSE [sl |-> 0, sc |-> 0, el |-> 0, ec |-> 0]
           convert(lsp_symbol, parent_symbol) ==
               [name |-> lsp_symbol.name,
                range |-> create_range(lsp_symbol.range),
                selectionRange |-> create_range(lsp_symbol.selectionRange),
                parent_symbol |-> parent_symbol]
       IN ret' = [done |-> TRUE,
                  value |-> <<convert(arg.symbol, 0), convert(arg.child, 1)>>]
    /\ UNCHANGED <<svars, evars, arg, stream, asked, wpc, db>>

\* Variant of the payload loop of _read_lsp_message that takes what the
\* first read() returns for the whole payload.
ReadChunk_SingleRead ==
    /\ arg.fn = "chunks"
    /\ ~ret.done
    /\ LET st == IF "messages" \in DOMAIN ret THEN ret
                 ELSE [done |-> FALSE, messages |-> <<>>,
                       content_bytes |-> <<>>, consumed |-> 0, reads |-> 0]
           RECURSIVE total(_)
           total(frames) ==
               IF frames = <<>> THEN 0
               ELSE Len(Head(frames)) + total(Tail(frames))
           f == Len(st.messages) + 1
           available == total(arg.frames) - arg.lost - st.consumed
       IN IF f > Len(arg.frames)
          THEN \* readline() returns b"": None, the reader loop ends
               ret' = [st EXCEPT !.done = TRUE]
          ELSE IF available <= 0
          THEN \* read() returns b"": break, incomplete read, None
               ret' = [st EXCEPT !.done = TRUE, !.content_bytes = <<>>]
          ELSE LET bytes_to_read ==
                       Len(arg.frames[f]) - Len(st.content_bytes)
                   most == IF bytes_to_read < available THEN bytes_to_read
                           ELSE available
               IN \E k \in 1..most :
                     LET from == Len(st.content_bytes)
                         content == st.content_bytes
                                      \o SubSeq(arg.frames[f], from + 1, from + k)
                     IN ret' = IF TRUE
                               THEN [st EXCEPT
                                       !.messages = Append(@, content),
                                       !.content_bytes = <<>>,
                                       !.consumed = @ + k,
                                       !.reads = @ + 1]
                               ELSE [st EXCEPT
                                       !.content_bytes = content,
                                       !.consumed = @ + k,
                                       !.reads = @ + 1]
    /\ UNCHANGED <<svars, evars, arg, stream, asked, wpc, db>>

\* _read_lsp_message on a stream that arrives in chunks, one read() of the
\* payload loop per step (the header lines are read by readline() before
\* the first of them).  arg.frames are the payloads of the frames the
\* server wrote, arg.lost the number of bytes at the end of the stream
\* that never arrive because the server exits.  read(n) returns between 1
\* and n of the bytes that are still to come, or b"" at end of stream.
\* ret.messages are the messages returned so far, ret.content_bytes what
\* the call in progress has accumulated.
ReadChunk ==
    /\ arg.fn = "chunks"
    /\ ~ret.done
    /\ LET st == IF "messages" \in DOMAIN ret THEN ret
                 ELSE [done |-> FALSE, messages |-> <<>>,
                       content_bytes |-> <<>>, consumed |-> 0, reads |-> 0]
           RECURSIVE total(_)
           total(frames) ==
               IF frames = <<>> THEN 0
               ELSE Len(Head(frames)) + total(Tail(frames))
           f == Len(st.messages) + 1
           available == total(arg.frames) - arg.lost - st.consumed
       IN IF f > Len(arg.frames)
          THEN \* readline() returns b"": None, the reader loop ends
               ret' = [st EXCEPT !.done = TRUE]
          ELSE IF available <= 0
          THEN \* read() returns b"": break, incomplete read, None
               ret' = [st EXCEPT !.done = TRUE, !.content_bytes = <<>>]
          ELSE LET bytes_to_read ==
                       Len(arg.frames[f]) - Len(st.content_bytes)
                   most == IF bytes_to_read < available THEN bytes_to_read
                           ELSE available
               IN \E k \in 1..most :
                     LET from == Len(st.content_bytes)
                         content == st.content_bytes
                                      \o SubSeq(arg.frames[f], from + 1, from + k)
                     IN ret' = IF Len(content) = Len(arg.frames[f])
                               THEN [st EXCEPT
                                       !.messages = Append(@, content),
                                       !.content_bytes = <<>>,
                                       !.consumed = @ + k,
                                       !.reads = @ + 1]
                               ELSE [st EXCEPT
                                       !.content_bytes = content,
                                       !.consumed = @ + k,
                                       !.reads = @ + 1]
    /\ UNCHANGED <<svars, evars, arg, stream, asked, wpc, db>>

\* Variant of find_symbol_within_range that returns the first containing
\* symbol of the list.
FindSymbol_First ==
    /\ arg.fn = "find"
    /\ ~ret.done
    /\ LET containing_symbols ==
               SelectSeq([n \in DOMAIN arg.ranges |-> n],
                         LAMBDA n : contains(arg.ranges[n], arg.ref_range))
           key(n) == <<arg.ranges[n].el - arg.ranges[n].sl,
                       arg.ranges[n].ec - arg.ranges[n].sc>>
           less(a, b) == a[1] < b[1] \/ (a[1] = b[1] /\ a[2] < b[2])
       IN ret' = [done |-> TRUE,
                  value |->
                    IF containing_symbols = <<>> THEN 0
                    ELSE containing_symbols[
                           1]]
    /\ UNCHANGED <<svars, evars, arg, stream, asked, wpc, db>>

\* FileModel.find_symbol_within_range on a file whose symbols have the
\* ranges arg.ranges, in the order of file.symbols: the symbols whose range
\* contains ref_range, stably sorted by (lines spanned, end character -
\* start character), first one.  The result is the position of the symbol
\* in file.symbols, 0 for None.
FindSymbol ==
    /\ arg.fn = "find"
    /\ ~ret.done
    /\ LET containing_symbols ==
               SelectSeq([n \in DOMAIN arg.ranges |-> n],
                         LAMBDA n : contains(arg.ranges[n], arg.ref_range))
           key(n) == <<arg.ranges[n].el - arg.ranges[n].sl,
                       arg.ranges[n].ec - arg.ranges[n].sc>>
           less(a, b) == a[1] < b[1] \/ (a[1] = b[1] /\ a[2] < b[2])
       IN ret' = [done |-> TRUE,
                  value |->
                    IF containing_symbols = <<>> THEN 0
                    ELSE containing_symbols[
                           CHOOSE i \in DOMAIN containing_symbols :
                         /\ \A j \in DOMAIN containing_symbols :
                               ~less(key(containing_symbols[j]),
                                     key(containing_symbols[i]))
                         /\ \A j \in 1..(i - 1) :
                               less(key(containing_symbols[i]),
                                    key(containing_symbols[j]))]]
    /\ UNCHANGED <<svars, evars, arg, stream, asked, wpc, db>>

\* Variant of _process_lsp_symbols that does not append the symbol to the
\* child_symbols of its parent.
ProcessTree_NoChildLink ==
    /\ arg.fn = "tree"
    /\ ~ret.done
    /\ LET RECURSIVE process_symbol(_, _, _)
           process_symbol(forest, parent_symbol, st) ==
               IF forest = <<>> THEN st
               ELSE LET lsp_symbol == Head(forest)
                        a == [st EXCEPT !.symbols =
                                 Append(@, [name |-> lsp_symbol.name,
                                            parent_symbol |-> parent_symbol])]
                        b == a
                    IN process_symbol(Tail(forest), parent_symbol,
                               IF lsp_symbol.name \in arg.bad THEN st
                               ELSE process_symbol(lsp_symbol.children,
                                            lsp_symbol.name, b))
       IN ret' = process_symbol(arg.syms, "None",
                         [done |-> TRUE, symbols |-> <<>>,
                          child_symbols |->
                            [n \in {"n1", "n2", "n3", "n4", "n5"} |-> <<>>]])
    /\ UNCHANGED <<svars, evars, arg, stream, asked, wpc, db>>

\* _process_lsp_symbols on the documentSymbol result arg.syms.
\* _convert_lsp_symbol_to_model returns None for the nodes of arg.bad
\* (their `range` is not a dict: create_range raises, and so does the
\* constructor call that follows); process_symbol then neither appends the
\* node nor looks at its children.  A converted node is appended to the
\* list, then to the child_symbols of its parent, then its children are
\* processed.  Symbols are named by the name of their node.
ProcessTree ==
    /\ arg.fn = "tree"
    /\ ~ret.done
    /\ LET RECURSIVE process_symbol(_, _, _)
           process_symbol(forest, parent_symbol, st) ==
               IF forest = <<>> THEN st
               ELSE LET lsp_symbol == Head(forest)
                        a == [st EXCEPT !.symbols =
                                 Append(@, [name |-> lsp_symbol.name,
                                            parent_symbol |-> parent_symbol])]
                        b == IF parent_symbol # "None"
                                  THEN [a EXCEPT !.child_symbols[parent_symbol] =
                                                    Append(@, lsp_symbol.name)]
                                  ELSE a
                    IN process_symbol(Tail(forest), parent_symbol,
                               IF lsp_symbol.name \in arg.bad THEN st
                               ELSE process_symbol(lsp_symbol.children,
                                            lsp_symbol.name, b))
       IN ret' = process_symbol(arg.syms, "None",
                         [done |-> TRUE, symbols |-> <<>>,
                          child_symbols |->
                            [n \in {"n1", "n2", "n3", "n4", "n5"} |-> <<>>]])
    /\ UNCHANGED <<svars, evars, arg, stream, asked, wpc, db>>

\* The reader on one inbound message, while the request arg.pending waits:
\* _handle_lsp_message of lsp_client.py, and the body of the loop of
\* _message_reader_loop of standalone_lsp_client.py.  arg.keys is the set
\* of the keys of the message, arg.id the value of its `id` if it has one.
\* The result: the ids under which the message was put in `responses`, and
\* the ids whose Event was set.
HandleMessage ==
    /\ arg.fn = "handle"
    /\ ~ret.done
    /\ LET response_events_ == {arg.pending}
           is_response ==
               IF arg.client = "unified"
               THEN "id" \in arg.keys
                      /\ ("result" \in arg.keys \/ "error" \in arg.keys)
               ELSE "id" \in arg.keys
       IN ret' = [done |-> TRUE,
                  responses |-> IF is_response THEN {arg.id} ELSE {},
                  set |-> IF is_response /\ arg.id \in response_events_
                          THEN {arg.id} ELSE {}]
    /\ UNCHANGED <<svars, evars, arg, stream, asked, wpc, db>>

\* INSERT OR IGNORE INTO SymbolRelationship: the table's uniqueness
\* constraint on (caller_id, called_id) makes the statement skip a row the
\* table already holds.
InsertOrIgnore(table, row) ==
    IF \E n \in DOMAIN table : table[n] = row THEN table ELSE Append(table, row)

\* Variant of insert_symbol_relationships that writes the pair of a
\* calling_symbols entry the wrong way round.
insert_symbol_relationships_Swapped(calls) ==
    LET ids == <<1, 2, 3>>
        called(s) == SelectSeq(ids, LAMBDA c : <<s, c>> \in calls)
        calling(s) == SelectSeq(ids, LAMBDA c : <<c, s>> \in calls)
        RECURSIVE insert(_, _)
        insert(table, q) ==
            IF q = <<>> THEN table
            ELSE insert(InsertOrIgnore(table, Head(q)), Tail(q))
        for_symbol(table, s) ==
            insert(insert(table, [n \in DOMAIN called(s) |-> <<s, called(s)[n]>>]),
                   [n \in DOMAIN calling(s) |-> <<s, calling(s)[n]>>])
    IN for_symbol(for_symbol(for_symbol(<<>>, 1), 2), 3)

\* insert_symbol_relationships: for every symbol, in the order of the
\* traversal, a row per entry of its called_symbols, then a row per entry
\* of its calling_symbols.  calls is the set of the in-memory edges
\* <<caller, called>>; a symbol is named by the id its row gets (1, 2, 3).
insert_symbol_relationships(calls) ==
    LET ids == <<1, 2, 3>>
        called(s) == SelectSeq(ids, LAMBDA c : <<s, c>> \in calls)
        calling(s) == SelectSeq(ids, LAMBDA c : <<c, s>> \in calls)
        RECURSIVE insert(_, _)
        insert(table, q) ==
            IF q = <<>> THEN table
            ELSE insert(InsertOrIgnore(table, Head(q)), Tail(q))
        for_symbol(table, s) ==
            insert(insert(table, [n \in DOMAIN called(s) |-> <<s, called(s)[n]>>]),
                   [n \in DOMAIN calling(s) |-> <<calling(s)[n], s>>])
    IN for_symbol(for_symbol(for_symbol(<<>>, 1), 2), 3)

\* Variant of from_obj_to_sql on a connection in autocommit mode
\* (isolation_level=None): every statement is committed as it is executed.
from_obj_to_sql_Autocommit ==
    /\ arg.fn = "store"
    /\ db.pc = "new"
    /\ \E raises \in (IF arg.ranged THEN {"range"}
                       ELSE {"none", "symbol", "relationship", "metadata"}) :
          LET containers == {<<"folder", 1>>, <<"file", 1>>}
              symbol_rows == {<<"symbol", i>> : i \in 1..3}
              relationships == insert_symbol_relationships(arg.calls)
              rows == CASE raises = "range" -> containers
                        [] raises = "symbol" -> containers \cup {<<"symbol", 1>>}
                        [] raises \in {"relationship", "metadata"} ->
                             containers \cup symbol_rows
                        [] OTHER -> containers \cup symbol_rows
                                       \cup {<<"project", 1>>}
              rels == CASE raises \in {"range", "symbol"} -> <<>>
                        [] raises = "relationship" ->
                             SubSeq(relationships, 1, Len(relationships) - 1)
                        [] OTHER -> relationships
          IN db' = [db EXCEPT
                      !.pc = IF raises = "none" THEN "committed" ELSE "raised",
                      !.rows = rows,
                      !.rels = rels,
                      !.left = IF raises = "none" THEN 3 ELSE 0,
                      !.parent_id = [i \in 1..3 |-> 0]]
    /\ UNCHANGED <<svars, evars, arg, ret, stream, asked, wpc>>

\* from_obj_to_sql on a new database file, and the first line of the loop
\* of document_projects.  The inserts run in the transaction sqlite3 opens
\* before the first of them; an insert may raise (the statement named by
\* `raises`, after the rows before it were inserted): the except clause
\* rolls the transaction back and re-raises; otherwise conn.commit().
\* When the symbols have a range (arg.ranged), as those of the extractor
\* do, insert_symbol raises on the first of them: it calls range.to_json(),
\* and LSPRange has to_dict only.  arg.parent_symbol gives the
\* parent_symbol of every symbol, 0 for None.
from_obj_to_sql ==
    /\ arg.fn = "store"
    /\ db.pc = "new"
    /\ \E raises \in (IF arg.ranged THEN {"range"}
                       ELSE {"none", "symbol", "relationship", "metadata"}) :
          LET containers == {<<"folder", 1>>, <<"file", 1>>}
              symbol_rows == {<<"symbol", i>> : i \in 1..3}
              relationships == insert_symbol_relationships(arg.calls)
              \* insert_file calls insert_symbol(sym, fid, parent_id=None)
              \* for every symbol of file.symbols, which holds the symbols
              \* of all levels; insert_symbol passes its own row id to the
              \* symbols of `children`, `childrens` or `nested_symbols`,
              \* attributes a SymbolModel (child_symbols) does not have,
              \* and returns at once for a symbol that has a row.
              children(i) == {}
              parent_id == [i \in 1..3 |->
                              IF \E q \in 1..(i - 1) : i \in children(q)
                              THEN CHOOSE q \in 1..(i - 1) : i \in children(q)
                              ELSE 0]
              \* the rows of the open transaction when it ends
              rows == CASE raises = "range" -> containers
                        [] raises = "symbol" -> containers \cup {<<"symbol", 1>>}
                        [] raises \in {"relationship", "metadata"} ->
                             containers \cup symbol_rows
                        [] OTHER -> containers \cup symbol_rows
                                       \cup {<<"project", 1>>}
              rels == CASE raises \in {"range", "symbol"} -> <<>>
                        [] raises = "relationship" ->
                             SubSeq(relationships, 1, Len(relationships) - 1)
                        [] OTHER -> relationships
          IN db' = [db EXCEPT
                      !.pc = IF raises = "none" THEN "committed" ELSE "raised",
                      !.rows = IF raises = "none" THEN rows ELSE db.rows,
                      !.rels = IF raises = "none" THEN rels ELSE db.rels,
                      \* get_number_of_symbols_with_no_documentation()
                      !.left = IF raises = "none" THEN 3 ELSE 0,
                      !.parent_id = parent_id]
    /\ UNCHANGED <<svars, evars, arg, ret, stream, asked, wpc>>

\* view_next_symbol_to_document: the undocumented symbols with the fewest
\* outgoing calls (the view has one of them as its first row).
view_next_symbol_to_document(d) ==
    LET undocumented == {i \in 1..3 : <<"symbol", i>> \in d.rows
                            /\ \A n \in DOMAIN d.documented : d.documented[n] # i}
        calls(i) == Cardinality({n \in DOMAIN d.rels : d.rels[n][1] = i})
    IN {i \in undocumented : \A j \in undocumented : calls(i) <= calls(j)}

\* Variant of get_next_symbol_to_document whose query counts the rows in
\* which the symbol is the called one.
get_next_symbol_to_document_Incoming(d) ==
    LET undocumented == {i \in 1..3 : <<"symbol", i>> \in d.rows
                            /\ \A n \in DOMAIN d.documented : d.documented[n] # i}
        calls(i) == Cardinality({n \in DOMAIN d.rels : d.rels[n][2] = i})
        less(i, j) == calls(i) < calls(j) \/ (calls(i) = calls(j) /\ i < j)
    IN IF undocumented = {} THEN {0}
       ELSE {i \in undocumented : \A j \in undocumented \ {i} : less(i, j)}

\* get_next_symbol_to_document: what it may return, 0 standing for None.
\* The first row of the view when the view exists and is not empty;
\* otherwise the inline query: the undocumented symbols with their number
\* of rows as caller, ORDER BY calls ASC, id ASC LIMIT 1.
get_next_symbol_to_document(d) ==
    LET undocumented == {i \in 1..3 : <<"symbol", i>> \in d.rows
                            /\ \A n \in DOMAIN d.documented : d.documented[n] # i}
        calls(i) == Cardinality({n \in DOMAIN d.rels : d.rels[n][1] = i})
        less(i, j) == calls(i) < calls(j) \/ (calls(i) = calls(j) /\ i < j)
    IN view_next_symbol_to_document(d)
         \cup (IF undocumented = {} THEN {0}
               ELSE {i \in undocumented : \A j \in undocumented \ {i} : less(i, j)})

\* One iteration of the loop of document_projects: the next symbol, the
\* call of the LLM, and add_documentation_to_symbol unless the call failed
\* (safe_document_symbol_json raised after its retries).  db.attempted
\* are the symbols the LLM was asked about so far.
DocumentNext ==
    /\ arg.fn = "store"
    /\ db.pc = "committed"
    /\ db.left > 0
    /\ \E symbol \in get_next_symbol_to_document(db), documented \in BOOLEAN :
          db' = [db EXCEPT
                   !.left = IF symbol = 0 THEN 0 ELSE @ - 1,
                   !.attempted = IF symbol = 0 THEN @ ELSE @ \cup {symbol},
                   !.documented = IF symbol # 0 /\ documented
                                  THEN Append(@, symbol) ELSE @]
    /\ UNCHANGED <<svars, evars, arg, ret, stream, asked, wpc>>

InitCall ==
    /\ InitSession
    /\ InitExtract
    /\ arg \in FilterInputs \cup UriInputs
                \cup {[fn |-> "write", client |-> c] :
                         c \in {"unified", "standalone"}}
                \cup LET Lines == {<<>>, <<"garbage">>,
                                   <<"content_type", "utf8">>,
                                   <<"content_length", 2>>,
                                   <<"content_length", 0>>}
                     IN (LET Positions == {<<0, 0>>, <<0, 1>>, <<1, 0>>}
                             Ranges == {[empty |-> TRUE]} \cup
                                 {[sl |-> r[1][1], sc |-> r[1][2],
                                   el |-> r[2][1], ec |-> r[2][2]] :
                                     r \in {x \in Positions \X Positions :
                                              \/ x[1][1] < x[2][1]
                                              \/ /\ x[1][1] = x[2][1]
                                                 /\ x[1][2] <= x[2][2]}}
                         IN {[fn |-> "symbols",
                              symbol |-> [name |-> "n1", range |-> r1,
                                          selectionRange |-> s1],
                              child |-> [name |-> "n2", range |-> r2,
                                         selectionRange |-> s2]] :
                                r1 \in Ranges, s1 \in Ranges,
                                r2 \in Ranges, s2 \in Ranges})
                        \cup
                        (LET Payloads ==
                                 UNION {[1..n -> {"x", "y"}] : n \in 1..3}
                         IN {[fn |-> "chunks", frames |-> fr, lost |-> l] :
                               fr \in UNION {[1..n -> Payloads] : n \in 1..2},
                               l \in 0..2})
                        \cup
                        (LET Positions == (0..1) \X (0..2)
                             Ranges ==
                                 {[sl |-> r[1][1], sc |-> r[1][2],
                                   el |-> r[2][1], ec |-> r[2][2]] :
                                     r \in {x \in Positions \X Positions :
                                              \/ x[1][1] < x[2][1]
                                              \/ /\ x[1][1] = x[2][1]
                                                 /\ x[1][2] <= x[2][2]}}
                         IN {[fn |-> "find", ranges |-> rs, ref_range |-> r] :
                               rs \in [1..2 -> Ranges], r \in Ranges})
                        \cup
                        {[fn |-> "tree",
                          syms |-> SymbolTree([n \in {"n1", "n2", "n3", "n4",
                                                      "n5"} |-> 5], e),
                          bad |-> b] :
                            e \in BOOLEAN,
                            b \in SUBSET {"n1", "n2", "n3", "n4", "n5"}}
                        \cup
                        {[fn |-> "handle", client |-> c, keys |-> k,
                          id |-> i, pending |-> 1] :
                            c \in {"unified", "standalone"},
                            k \in SUBSET {"id", "result", "error", "method"},
                            i \in {1, 2}}
                        \cup
                        {[fn |-> "store", calls |-> c, ranged |-> r,
                          parent_symbol |-> ps] :
                           c \in SUBSET {<<i, j>> \in (1..3) \X (1..3) : i # j},
                           r \in BOOLEAN,
                           ps \in {<<0, 0, 0>>, <<0, 1, 0>>, <<0, 1, 2>>}}
                        \cup
                        {[fn |-> "read", lines |-> l, body |-> b] :
                           l \in UNION {[1..n -> Lines] : n \in 0..3},
                           b \in [len : 0..2,
                                  text : {"json", "not json", "not utf-8"}]}
    /\ ret = [done |-> FALSE]
    /\ stream = <<>>
    /\ asked = <<>>
    /\ wpc = [t \in {"w1", "w2", "w3"} |-> "idle"]
    /\ db = [pc |-> "new", rows |-> {}, rels |-> <<>>, documented |-> <<>>,
             left |-> 0, parent_id |-> <<0, 0, 0>>, attempted |-> {}]

NextCall ==
    \/ FilterSymbols
    \/ RoundTrip
    \/ \E t \in {"w1", "w2", "w3"} : WriteMessage(t)
    \/ \E t \in {"w1", "w2", "w3"} : Drained(t)
    \/ ReadMessage
    \/ ProcessSymbols
    \/ HandleMessage
    \/ ReadChunk
    \/ FindSymbol
    \/ ProcessTree
    \/ from_obj_to_sql
    \/ DocumentNext

SpecCall == InitCall /\ [][NextCall]_vars

(***************************************************************************)
(* Properties of one LSPClient session.                                    *)
(***************************************************************************)
\* C1: once the request with id i has timed out, a response for i that
\* arrives afterwards is discarded, so the response map never holds an
\* entry for an id whose request timed out.
C1_LateResponseDiscarded ==
    \A i \in timed_out : i \notin DOMAIN responses

\* C2: whatever the number of pending requests and the arrival order of the
\* responses, a caller whose _send_request ended with a response holds the
\* response that carries the id allocated to its own request, also when
\* another request of the session timed out before.
C2_OwnResponse ==
    \A t \in Tasks :
        outcome[t] \in {"result", "error"} =>
            /\ got[t].id = rid[t]
            /\ got[t].k = outcome[t]

\* Two requests were pending together, the earlier one timed out, and the
\* later one still received its own result.
C2_Witness ==
    \E t \in Users, u \in Users :
        /\ outcome[u] = "timeout"
        /\ rid[u] < rid[t]
        /\ outcome[t] = "result"
        /\ got[t].id = rid[t]
        /\ rid[u] \in DOMAIN responses

\* C4: after the reader loop has ended on a transport error no request is
\* left pending and is_running no longer reports true.
C4_TransportErrorFailsSession ==
    reader_err =>
        /\ \A t \in Tasks : pc[t] \notin {"waiting", "init_wait", "sd_wait"}
        /\ ~(is_running /\ process = "set")

\* C3: a shutdown that has run to completion leaves no request pending:
\* every request that was pending has been completed by the shutdown.
C3_ShutdownCompletesPending ==
    (terminate_calls > 0 /\ process = "None") =>
        \A t \in Users : pc[t] # "waiting"

\* C8: start_server reports success, and `initialized` has been written,
\* only after a successful `initialize` response was received.
C8_InitializedOnlyAfterSuccess ==
    (pc[Starter] = "ret_true"
       \/ BagIn(Notification("initialized", "none"), wire))
        => server_capabilities

\* C6: within one session at most one textDocument/didOpen is written per
\* URI.
C6_AtMostOneDidOpenPerUri ==
    \A u \in Uris : CopiesIn(Notification("textDocument/didOpen", u), wire) <= 1

(***************************************************************************)
(* Properties of DockerLSPClient.shutdown.                                 *)
(***************************************************************************)
\* C5: whatever the interleaving of two shutdown calls, the `shutdown`
\* request is written at most once and the process is terminated at most
\* once.
C5_ShutdownIdempotent ==
    shutdown_writes <= 1 /\ terminate_calls <= 1

(***************************************************************************)
(* Properties of LSP_Extractor.run_extraction.                             *)
(***************************************************************************)
ExtractorQueries ==
    {"textDocument/documentSymbol", "textDocument/definition",
     "textDocument/references"}

\* C7: on every session, a documentSymbol, definition or references request
\* for a file is written only after the didOpen notification for that file
\* has been written to the same session.
C7_OpenBeforeQuery ==
    \A l \in DOMAIN sent : \A n \in DOMAIN sent[l] :
        sent[l][n].method \in ExtractorQueries =>
            \E m \in 1..(n - 1) :
                sent[l][m] = [method |-> "textDocument/didOpen",
                              file |-> sent[l][n].file]

\* Both sessions have been sent queries of all three kinds.
C7_Witness ==
    \A l \in DOMAIN sent : \A q \in ExtractorQueries :
        \E n \in DOMAIN sent[l] : sent[l][n].method = q

\* The file whose documentSymbol tree holds symbol s.
SymbolFile(s) == CHOOSE f \in {"f1", "f2"} : InSeq(s, DocumentSymbols[f])

\* C9: once extract_and_filter_symbols is over, a symbol that was checked
\* is in its file's symbol list if and only if the definition check
\* accepted it; a symbol whose check failed has been dropped.
C9_OnlyDefinitionsRemain ==
    step \in {"references", "shutdown", "done"} =>
        \A s \in Symbols :
            def_result[s] # "unasked" =>
                (InSeq(s, symbols[SymbolFile(s)]) <=> def_result[s] = "definition")

\* The most specific symbols enclosing a location: the enclosing symbols
\* whose range lies within the range of every other enclosing symbol.
InProject(loc) == loc.file \in {"f1", "f2"}
Encloses(e, loc) ==
    InProject(loc) /\ InSeq(e, symbols[loc.file]) /\ contains(Range[e], loc.range)
MostSpecific(loc) ==
    {e \in Symbols : /\ Encloses(e, loc)
                     /\ \A e2 \in Symbols :
                           Encloses(e2, loc) => contains(Range[e2], Range[e])}
Edge(callee, caller) ==
    InSeq(caller, calling_symbols[callee]) /\ InSeq(callee, called_symbols[caller])

C11_NoSelfNoDuplicateEdge ==
    \A s \in Symbols :
        /\ ~InSeq(s, calling_symbols[s])
        /\ ~InSeq(s, called_symbols[s])
        /\ \A i, j \in DOMAIN calling_symbols[s] :
              calling_symbols[s][i] = calling_symbols[s][j] => i = j
        /\ \A i, j \in DOMAIN called_symbols[s] :
              called_symbols[s][i] = called_symbols[s][j] => i = j

\* The last call processed a location inside the callee itself, and some
\* symbol has two callers.
C11_Witness ==
    /\ \E rec \in seen : rec.callee \in MostSpecific(rec.loc)
    /\ \E s \in Symbols : Len(calling_symbols[s]) = 2

\* C12: languages are processed one after another, the session of a language
\* being shut down before the next one is started: at any point of
\* run_extraction at most one session is running.
C12_OneSessionAtATime ==
    Cardinality({l \in DOMAIN servers : servers[l] = "up"}) <= 1

\* C13: when the session of a language failed to start, the run is not
\* aborted (it has a next step until it is over), every file of that
\* language has no symbols, and a file of a language whose session runs has
\* its documentSymbol request written to that session once the file has
\* been opened.
C13_FailedStartContained ==
    /\ \A n \in DOMAIN Files :
          servers[Language[Files[n]]] = "failed" => symbols[Files[n]] = <<>>
    /\ \A n \in DOMAIN Files :
          (/\ step \in {"references", "shutdown"}
           /\ servers[Language[Files[n]]] = "up"
           /\ Files[n] \in opened_files)
              => InSeq([method |-> "textDocument/documentSymbol",
                        file |-> Files[n]],
                       sent[Language[Files[n]]])
    /\ ((\E l \in DOMAIN servers : servers[l] = "failed") /\ step # "done")
          => ENABLED RunStep

\* The run ended after the python session failed to start; the java file
\* has its symbols.
C13_Witness ==
    /\ step = "done"
    /\ servers["python"] = "failed"
    /\ servers["java"] = "down"
    /\ symbols["f2"] = <<"D">>

\* C14: an error in one file or one symbol is contained: the loop over the
\* files is left only after the last file, entering the files one by one;
\* the loop over the symbols is left only after the last symbol, for the
\* shutdown of the sessions; and while the files are processed the run
\* always has a next step.
C14_ErrorsContained ==
    /\ [][(step \in {"open", "symbols", "definition"}
              /\ step' \notin {"open", "symbols", "definition"})
            => (fi = Len(Files) /\ step' \in {"references", "shutdown"})]_vars
    /\ [][fi' # fi => (fi' = fi + 1 /\ step' = "open")]_vars
    /\ [][(step = "references" /\ (step' # step \/ si' # si))
            => IF si < Len(AllSymbols(symbols, 1))
               THEN step' = step /\ si' = si + 1
               ELSE step' = "shutdown"]_vars
    /\ [](step \in {"open", "symbols", "definition"} => ENABLED RunStep)

\* The documentSymbol request of the first file was written and gave no
\* symbols (it failed, or its result made _process_lsp_symbols raise); the
\* second file was processed, its symbol got a caller, and the run ended.
C14_Witness ==
    /\ step = "done"
    /\ InSeq([method |-> "textDocument/documentSymbol", file |-> "f1"],
             sent["python"])
    /\ symbols["f1"] = <<>>
    /\ symbols["f2"] = <<"D">>
    /\ def_result["D"] # "unasked"

\* C17: a reference whose URI resolves to no file of the project is
\* skipped: the other references of the same call are still processed (the
\* edge of each of them is recorded), and both ends of every recorded edge
\* are symbols of project files.
C17_UnresolvedSkipped ==
    /\ \A s \in Symbols, e \in Symbols :
          (InSeq(e, calling_symbols[s]) \/ InSeq(e, called_symbols[s])) =>
              \A x \in {s, e} : \E f \in {"f1", "f2"} : InSeq(x, symbols[f])
    /\ (\E skipped \in seen : ~InProject(skipped.loc)) =>
          \A rec \in seen : \A e \in MostSpecific(rec.loc) :
              (e # rec.callee /\ e \notin child_symbols(rec.callee))
                  => Edge(rec.callee, e)

\* The last call was given two locations, one outside the project and one
\* inside a symbol that is neither the callee nor a child of it, and the
\* edge of the latter is recorded.
C17_Witness ==
    /\ \E skipped \in seen : ~InProject(skipped.loc)
    /\ \E rec \in seen : \E e \in MostSpecific(rec.loc) :
          /\ e # rec.callee
          /\ e \notin child_symbols(rec.callee)
          /\ Edge(rec.callee, e)
    /\ Cardinality(seen) = 2

\* C18: a symbol of kind import is never recorded as a callee: it has no
\* caller in its calling_symbols and is in no symbol's called_symbols.
C18_ImportNeverCallee ==
    \A s \in Symbols :
        SymbolKind[s] = "import" =>
            /\ calling_symbols[s] = <<>>
            /\ \A t \in Symbols : ~InSeq(s, called_symbols[t])

\* C19: shutdown() first writes the `shutdown` request and waits a bounded
\* time for its answer, then writes the `exit` notification, then
\* terminates the process; `exit` is written and the process is terminated
\* also when the server never answers the `shutdown` request.
C19_ShutdownThenExitThenTerminate ==
    /\ [](BagIn(Notification("exit", "none"), wire) => shutdown_writes > 0)
    /\ [][\A t \in Tasks :
            (pc[t] = "sd_wait" /\ pc'[t] = "sd_term" /\ proc = "live")
                => /\ BagIn(Notification("exit", "none"), wire')
                   /\ terminate_calls' = terminate_calls + 1
                   /\ proc' = "exited"]_vars

\* C20: every request has an effective deadline: a call of _send_request
\* that has started eventually returns to its caller, whatever the server
\* does (never answering, never reading its input, exiting).
C20_RequestReturns ==
    (pc["u1"] \in {"waiting", "blocked"}) ~> (pc["u1"] = "done")

(***************************************************************************)
(* Properties of the helper functions.                                     *)
(***************************************************************************)
\* C15: for a non-empty wanted-kind set, _filter_symbols_by_kind keeps a
\* node of the documentSymbol tree if and only if its kind is wanted or the
\* kind of one of its descendants is wanted; the kept nodes keep their
\* parent and their relative order, and no other node is in the output.
C15_FilterKeepsWantedAndAncestors ==
    (arg.fn = "filter" /\ ret.done) =>
        LET RECURSIVE Nodes(_, _)
            Nodes(forest, parent) ==
                IF forest = <<>> THEN {}
                ELSE {[name |-> Head(forest).name, parent |-> parent,
                       kind |-> Head(forest).kind]}
                       \cup Nodes(Head(forest).children, Head(forest).name)
                       \cup Nodes(Tail(forest), parent)
            RECURSIVE Preorder(_)
            Preorder(forest) ==
                IF forest = <<>> THEN <<>>
                ELSE <<Head(forest).name>>
                       \o Preorder(Head(forest).children)
                       \o Preorder(Tail(forest))
            input == Nodes(arg.syms, "root")
            RECURSIVE Under(_, _)
            Under(d, a) ==
                \E n \in input :
                    n.name = d /\ (n.parent = a \/ Under(n.parent, a))
            Keep(n) ==
                \/ n.kind \in arg.wanted_kinds
                \/ \E d \in input :
                       Under(d.name, n.name) /\ d.kind \in arg.wanted_kinds
            KeepName(x) == \E n \in input : n.name = x /\ Keep(n)
        IN /\ Nodes(ret.value, "root") = {n \in input : Keep(n)}
           /\ Preorder(ret.value) = SelectSeq(Preorder(arg.syms), KeepName)

\* C16: in container mode and in host mode, the URI sent for a project
\* file, converted back the way the URI of a reference is, gives the
\* file's project-relative path, and find_from_file_path returns the file.
C16_UriRoundTrip ==
    (arg.fn = "uri" /\ ret.done) =>
        /\ ret.path = arg.file
        /\ ret.value = arg.file

\* C21: the frames written by concurrent tasks never interleave: the
\* stream is a sequence of whole frames, each one header followed by the
\* payload of one task whose number of bytes is the header's value, and the
\* frames are in the order in which the writes were called.
C21_FramesWholeAndInOrder ==
    LET RECURSIVE Framed(_, _)
        Framed(s, k) ==
            IF s = <<>> THEN k = Len(asked) + 1
            ELSE /\ k <= Len(asked)
                 /\ "header" \in DOMAIN Head(s)
                 /\ Head(s).header >= 1
                 /\ Len(s) >= 1 + Head(s).header
                 /\ \A n \in 2..(1 + Head(s).header) :
                       "byte" \in DOMAIN s[n] /\ s[n].of = asked[k]
                 /\ Framed(SubSeq(s, 2 + Head(s).header, Len(s)), k + 1)
    IN Framed(stream, 1)

\* Of the standalone client, the three tasks have written, the task with
\* the non-ASCII message not as the last, and one of them is still in
\* drain().
C21_Witness ==
    /\ arg = [fn |-> "write", client |-> "standalone"]
    /\ Len(asked) = 3
    /\ asked[3] = "w1"
    /\ \E t \in DOMAIN wpc : wpc[t] = "drain"

\* C22: _read_lsp_message returns None only on a clean end of stream (the
\* stream ends where a message would start); a header line without a
\* colon, a missing or non-positive Content-Length, a stream that ends
\* inside the payload and a payload that is not valid UTF-8 or JSON are
\* reported as errors, not as None.
C22_NoneOnlyOnCleanEOF ==
    (arg.fn = "read" /\ ret.done) =>
        LET ends == {n \in DOMAIN arg.lines : arg.lines[n] = <<>>}
            last == IF ends = {} THEN Len(arg.lines)
                    ELSE CHOOSE n \in ends : \A m \in ends : n <= m
            block == SubSeq(arg.lines, 1, last)
            lengths == {n \in 1..Len(block) : Len(block[n]) = 2
                                               /\ block[n][1] = "content_length"}
            length == IF lengths = {} THEN 0
                      ELSE block[CHOOSE n \in lengths : \A m \in lengths : m <= n][2]
            malformed ==
                \/ \E n \in 1..Len(block) : Len(block[n]) = 1
                \/ ends # {} /\ length <= 0
                \/ ends # {} /\ arg.body.len < length
                \/ ends # {} /\ arg.body.text # "json"
        IN /\ ret.value.k = "None" <=> arg.lines = <<>>
           /\ malformed => ret.value.k = "error"


\* C23: from_obj_to_sql writes the rows of a run in one transaction: when an
\* insert fails the error is raised and none of the run's folder, file,
\* symbol or relationship rows is in the database; otherwise all of them
\* are committed together.
C23_StoreAllOrNothing ==
    arg.fn = "store" =>
        \/ /\ db.pc \in {"new", "raised"}
           /\ db.rows = {}
           /\ db.rels = <<>>
        \/ /\ db.pc = "committed"
           /\ db.rows = {<<"folder", 1>>, <<"file", 1>>, <<"project", 1>>}
                           \cup {<<"symbol", i>> : i \in 1..3}
           /\ {db.rels[n] : n \in DOMAIN db.rels} = arg.calls

\* A run over a project with call edges was rolled back and raised.
C23_Witness ==
    /\ arg.fn = "store"
    /\ db.pc = "raised"
    /\ Cardinality(arg.calls) >= 2

\* C24: after a successful from_obj_to_sql the SymbolRelationship table
\* holds exactly one row (caller_id, called_id) for every in-memory call
\* edge, and no other row.
C24_OneRowPerEdge ==
    (arg.fn = "store" /\ db.pc = "committed") =>
        /\ \A e \in arg.calls :
              Cardinality({n \in DOMAIN db.rels : db.rels[n] = e}) = 1
        /\ \A n \in DOMAIN db.rels : db.rels[n] \in arg.calls

\* A committed run over a project in which one symbol both calls and is
\* called, so that its edges are met from both of their ends.
C24_Witness ==
    /\ arg.fn = "store"
    /\ db.pc = "committed"
    /\ {<<1, 2>>, <<2, 3>>, <<3, 2>>} \subseteq arg.calls
    /\ Len(db.rels) = Cardinality(arg.calls)

\* C25: get_next_symbol_to_document returns an undocumented symbol whose
\* number of outgoing call rows is minimal among the undocumented symbols,
\* and returns None (0) exactly when no symbol is undocumented.
C25_NextIsMinimalUndocumented ==
    (arg.fn = "store" /\ db.pc = "committed") =>
        LET done == {db.documented[n] : n \in DOMAIN db.documented}
            todo == {i \in 1..3 : <<"symbol", i>> \in db.rows} \ done
            out(i) == Cardinality({e \in arg.calls : e[1] = i})
        IN \A r \in get_next_symbol_to_document(db) :
              /\ r = 0 <=> todo = {}
              /\ r # 0 => r \in todo /\ \A j \in todo : out(r) <= out(j)

\* One symbol is documented and the two others differ in their number of
\* outgoing calls, the one with more of them having the smaller id.
C25_Witness ==
    /\ arg.fn = "store"
    /\ db.pc = "committed"
    /\ db.documented = <<3>>
    /\ arg.calls = {<<1, 2>>, <<1, 3>>, <<2, 3>>}
    /\ get_next_symbol_to_document(db) = {2}

\* C26: in an acyclic call graph document_projects documents a symbol only
\* after every symbol it calls has been documented.
C26_CalleesDocumentedFirst ==
    LET calls(i, j) == <<i, j>> \in arg.calls
        acyclic == /\ \A i, j \in 1..3 : ~(calls(i, j) /\ calls(j, i))
                   /\ ~(calls(1, 2) /\ calls(2, 3) /\ calls(3, 1))
                   /\ ~(calls(1, 3) /\ calls(3, 2) /\ calls(2, 1))
    IN (arg.fn = "store" /\ acyclic) =>
          \A n \in DOMAIN db.documented :
             \A c \in 1..3 :
                calls(db.documented[n], c) =>
                   \E m \in 1..(n - 1) : db.documented[m] = c


\* C27: for every symbol that extraction leaves in the symbol list of a
\* file, selectionRange is contained in range, and the range of a symbol
\* with a parent is contained in the range of the parent.
C27_RangesNested ==
    (arg.fn = "symbols" /\ ret.done) =>
        \A n \in DOMAIN ret.value :
           LET symbol == ret.value[n]
           IN /\ contains(symbol.range, symbol.selectionRange)
              /\ symbol.parent_symbol # 0 =>
                    contains(ret.value[symbol.parent_symbol].range, symbol.range)


\* C28: _filter_symbols_by_kind never adds a `children` key: every node of
\* the output that has the key is a node of the input that had it, so a
\* payload none of whose nodes has the key comes back without any.
C28_NoChildrenKeyAdded ==
    (arg.fn = "filter" /\ ret.done) =>
        LET RECURSIVE Keyed(_)
            Keyed(forest) ==
                IF forest = <<>> THEN {}
                ELSE (IF "children" \in Head(forest).keys
                      THEN {Head(forest).name} ELSE {})
                       \cup Keyed(Head(forest).children)
                       \cup Keyed(Tail(forest))
        IN Keyed(ret.value) \subseteq Keyed(arg.syms)

\* The Docker client kept a node that has no `children` key (n5) under a
\* node that has one.
C28_Witness ==
    /\ arg.fn = "filter"
    /\ arg.client = "docker"
    /\ ret.done
    /\ Len(ret.value) = 1
    /\ ret.value[1].name = "n1"
    /\ \E n \in DOMAIN ret.value[1].children :
          /\ ret.value[1].children[n].name = "n5"
          /\ ret.value[1].children[n].keys = {}


\* C29 as stated: within a session the request ids start at 1 and strictly
\* increase with each _send_request, so that no two requests written to
\* the server share an id, whatever the interleaving of the callers,
\* shutdown included.  A step changes request_id only by adding 1, or by
\* resetting it once the process handle is dropped; a request newly
\* written carries the counter's new value; and `initialize`, the first
\* request of a session, carries 1.
C29_RequestIdsIncrease ==
    [][ /\ request_id' \in {request_id, request_id + 1, 0}
        /\ (request_id' = 0 /\ request_id # 0) => process' = "None"
        /\ \A m \in BagToSet(wire') :
              (m.k = "req" /\ CopiesIn(m, wire') > CopiesIn(m, wire)) =>
                 /\ m.id = request_id + 1
                 /\ request_id' = m.id
                 /\ process' = "set"
                 /\ m.method = "initialize" => m.id = 1 ]_vars

\* C29, amended: within a session the request ids strictly increase by one
\* with each _send_request and no two requests written to the server share
\* an id, shutdown included; the first id of the session is one more than
\* the number of _send_request calls made on the client before
\* start_server, hence 1 when there was none.
C29_IdsIncreaseInSession ==
    [][ /\ request_id' \in {request_id, request_id + 1, 0}
        /\ (request_id' = 0 /\ request_id # 0) => process' = "None"
        /\ \A m \in BagToSet(wire') :
              (m.k = "req" /\ CopiesIn(m, wire') > CopiesIn(m, wire)) =>
                 /\ m.id = request_id + 1
                 /\ request_id' = m.id
                 /\ process' = "set"
                 /\ (m.method = "initialize" /\ request_id = 0) => m.id = 1
      ]_vars

\* The `shutdown` request was written while a user's request was pending:
\* both wait, under different ids, the later one the greater.
C29_Witness ==
    /\ pc["u1"] = "waiting"
    /\ pc["s1"] = "sd_wait"
    /\ rid["u1"] = 2
    /\ rid["s1"] = 3
    /\ request_id = 3


\* C30: the reader delivers an inbound message to a pending slot if and
\* only if the message carries an `id` together with a `result` or an
\* `error`; an error response sets the Event of its caller; a request of
\* the server (`method` and `id`) is never delivered, also when its id is
\* the id of a pending request.
C30_OnlyResponsesDelivered ==
    (arg.fn = "handle" /\ ret.done) =>
        LET response == "id" \in arg.keys
                          /\ ("result" \in arg.keys \/ "error" \in arg.keys)
        IN /\ ret.responses # {} <=> response
           /\ (response /\ arg.id = arg.pending) => ret.set = {arg.pending}
           /\ ~response => ret.set = {}


\* C31: a session accepts the requests of its users only between the end
\* of a successful initialization and the start of shutdown: a user's
\* message is written to the server only when start_server has returned
\* True and shutdown() has not cleared the running flag.
C31_UserWritesOnlyWhileOperating ==
    [][ \A m \in BagToSet(wire') :
           (/\ CopiesIn(m, wire') > CopiesIn(m, wire)
            /\ m.method \in QueryMethods \cup {"textDocument/didOpen"}) =>
              /\ pc[Starter] = "ret_true"
              /\ is_running ]_vars


\* C32: however the inbound byte stream is split into chunks,
\* _read_lsp_message returns a message only after it has consumed exactly
\* Content-Length payload bytes: the messages returned are the frames
\* sent, in order and each one whole, all of them when the whole stream
\* arrived; a payload received in part is never returned.
C32_WholeFramesInOrder ==
    (arg.fn = "chunks" /\ "messages" \in DOMAIN ret) =>
        /\ Len(ret.messages) <= Len(arg.frames)
        /\ \A n \in DOMAIN ret.messages : ret.messages[n] = arg.frames[n]
        /\ (ret.done /\ arg.lost = 0) => ret.messages = arg.frames

\* Two frames were returned whole although the payload of one of them
\* came in several chunks; a third call saw the end of the stream.
C32_Witness ==
    /\ arg.fn = "chunks"
    /\ ret.done
    /\ arg.lost = 0
    /\ Len(arg.frames) = 2
    /\ Len(arg.frames[2]) = 3
    /\ ret.messages = arg.frames
    /\ ret.reads > 3


\* C33: find_symbol_within_range(r) returns None if and only if no symbol
\* of the file has a range that contains r; otherwise it returns a symbol
\* whose range contains r and that is most specific: no other symbol whose
\* range contains r has its range strictly inside the returned one's.
C33_MostSpecificEnclosing ==
    (arg.fn = "find" /\ ret.done) =>
        LET enclosing == {n \in DOMAIN arg.ranges :
                            contains(arg.ranges[n], arg.ref_range)}
        IN /\ ret.value = 0 <=> enclosing = {}
           /\ ret.value # 0 =>
                 /\ ret.value \in enclosing
                 /\ \A n \in enclosing :
                       ~(/\ contains(arg.ranges[ret.value], arg.ranges[n])
                         /\ arg.ranges[n] # arg.ranges[ret.value])

\* Both symbols enclose the reference, the second lies strictly inside the
\* first on the same lines, and the second is returned.
C33_Witness ==
    /\ arg.fn = "find"
    /\ ret.done
    /\ arg.ranges[1] = [sl |-> 0, sc |-> 0, el |-> 1, ec |-> 2]
    /\ arg.ranges[2] = [sl |-> 0, sc |-> 1, el |-> 1, ec |-> 2]
    /\ arg.ref_range = [sl |-> 0, sc |-> 2, el |-> 0, ec |-> 2]
    /\ ret.value = 2

C35_ParentIdIsParentRow ==
    (arg.fn = "store" /\ db.pc = "committed") =>
        \A i \in 1..3 :
           <<"symbol", i>> \in db.rows =>
              db.parent_id[i] = arg.parent_symbol[i]


\* C36: a documentSymbol entry that lacks `range` or `selectionRange`
\* produces no symbol: it is not in the symbol list of the file.
C36_EntryWithoutRangeDropped ==
    (arg.fn = "symbols" /\ ret.done) =>
        \A lsp_symbol \in {arg.symbol, arg.child} :
           ("sl" \notin DOMAIN lsp_symbol.range
              \/ "sl" \notin DOMAIN lsp_symbol.selectionRange) =>
                 \A n \in DOMAIN ret.value : ret.value[n].name # lsp_symbol.name


\* C37: in document_projects a symbol whose documentation attempt fails
\* does not block the others: when the loop has ended, every symbol that
\* was undocumented at its start has been attempted at least once.
C37_EverySymbolAttempted ==
    (arg.fn = "store" /\ db.pc = "committed" /\ db.left = 0) =>
        \A i \in 1..3 : i \in db.attempted


\* C38: when start_server has returned False the client is stopped:
\* is_running is false, it holds no server process, no server process of
\* its own is alive and its reader task is not running, whichever step of
\* the start failed.
C38_FailedStartLeavesStopped ==
    pc[Starter] = "ret_false" =>
        /\ ~is_running
        /\ process = "None"
        /\ proc # "live"
        /\ reader # "reading"


\* C39: when run_extraction has finished, by its return or by an exception
\* raised while it added or started a later server or while it extracted,
\* no session that it started is still running.
C39_SessionsShutDownAtEnd ==
    step \in {"done", "raised"} =>
        \A l \in DOMAIN servers : servers[l] # "up"

\* C40: the two edge lists mirror each other: for all symbols s and t, t is
\* in s.calling_symbols if and only if s is in t.called_symbols.
C40_EdgeListsMirror ==
    \A s \in Symbols, t \in Symbols :
        InSeq(t, calling_symbols[s]) <=> InSeq(s, called_symbols[t])

\* linking_call_symbols has recorded edges: one symbol has two callers and
\* another symbol is both a caller and a callee.
C40_Witness ==
    /\ \E s \in Symbols : Len(calling_symbols[s]) = 2
    /\ \E s \in Symbols : calling_symbols[s] # <<>> /\ called_symbols[s] # <<>>
    /\ C40_EdgeListsMirror

====
